---- MODULE Spec2Model ----
(***************************************************************************)
(* Verification model of the commit-safety checker's dual-version shadow   *)
(* comparison engine (backend/utils/shadow_traffic.py).                    *)
(*                                                                         *)
(* Specification Spec models the lifecycle of ShadowTrafficRunner objects: *)
(* two runners share one machine (one process table, one set of ports and  *)
(* one filesystem) and their callers invoke setup_dual_deployment,         *)
(* run_shadow_comparison and cleanup.  Every await / subprocess boundary   *)
(* of the code is one step.                                                *)
(*                                                                         *)
(* Specification SpecCompare models one comparison: two probes made by     *)
(* _send_request and their classification by _compare_responses.           *)
(*                                                                         *)
(* Specification SpecRun models one run_shadow_comparison call over a list *)
(* of requests, and specification SpecAnalyze one call of                  *)
(* RepoAnalyzer.analyze_changes (backend/utils/repo_analyzer.py).          *)
(*                                                                         *)
(* SpecAnalyzeFaults is SpecAnalyze with git diff / git show failing;      *)
(* SpecDiff, SpecReady, SpecDetect and SpecSchema each model one call of   *)
(* _parse_diff_content, _check_server_ready, the launch half of            *)
(* _start_version and the schema rule of _compare_responses.  SpecStorage  *)
(* models the /analyze endpoint and its background runs (backend/main.py). *)
(***************************************************************************)
EXTENDS Integers, Sequences, FiniteSets, TLC

VARIABLES
    \* ---- runner lifecycle (ShadowTrafficRunner fields and machine state)
    runners,            \* the ShadowTrafficRunner objects that were constructed
    repo_path,          \* runner -> repository it was constructed with
    commit_sha,         \* runner -> commit it was constructed with
    parent_sha,         \* runner -> self.parent_sha
    version_a_process,  \* runner -> self.version_a_process (None or a process)
    version_b_process,  \* runner -> self.version_b_process (None or a process)
    pc,                 \* runner -> position inside the call in progress
    ret,                \* runner -> what the last finished call returned
    setups,             \* runner -> number of setup_dual_deployment calls begun
    a_ready,            \* runner -> local version_a_ready of the setup in progress
    proc,               \* process -> "none" | "running" | "exited"
    ws,                 \* workspace path -> Absent or the commit whose tree was copied
    nested,             \* workspace path -> workspaces copied inside this one
    head,               \* repository -> commit checked out in the repository
    \* ---- one comparison (_send_request twice, then _compare_responses)
    cmp_pc,             \* "sendA" | "sendB" | "compare" | "done" | "off"
    resp_a, resp_b,     \* the response dicts returned by _send_request
    lat_a, lat_b,       \* the latencies returned by _send_request (ms)
    comparison,         \* the dict returned by _compare_responses
    \* ---- one run_shadow_comparison call
    run_pc,             \* "start" | "for" | "sendA" | "sendB" | "compare" | "done" | "off"
    endpoints,          \* the endpoints argument
    test_requests,      \* the test_requests argument, then the list iterated
    req_i,              \* position of the for loop in test_requests
    probe_a, probe_b,   \* (response, latency) returned by the two _send_request calls
    comparisons,        \* the local list comparisons
    discrepancies,      \* the local list discrepancies
    run_result,         \* the dict returned by run_shadow_comparison
    \* ---- one RepoAnalyzer.analyze_changes call
    an_pc,              \* position inside analyze_changes, "done" | "off"
    an_repo,            \* the repo_path argument
    an_ref,             \* the commit_sha argument as the caller gave it
    an_commit_sha,      \* the local commit_sha (reassigned after rev-parse)
    commit_exists,      \* output of the last git cat-file -t
    an_parent_sha,      \* the local parent_sha
    diff_stats,         \* output of diff --stat / show --stat (lines), <<>> for None
    diff_content,       \* output of diff / show (patch lines), <<>> for None
    changes,            \* the dict being filled and returned
    an_raised,          \* NoError or the ValueError raised to the caller
    \* ---- one RepoAnalyzer._parse_diff_content call
    pd_pc,              \* "call" | "done" | "off"
    pd_content,         \* the diff_content argument (lines)
    pd_diffs,           \* the list returned
    \* ---- the environment of analyze_changes
    diff_fault,         \* "none" | "nonzero" | "timeout": how git diff / show end
    \* ---- one ShadowTrafficRunner._check_server_ready call
    rd_pc,              \* "probe" | "sleep" | "done" | "off"
    rd_url,             \* the url argument
    rd_probes,          \* iterations of the for loop begun so far
    rd_last,            \* what the last session.get did
    rd_result,          \* the value returned
    rd_answered,        \* whether some probe got a response with status < 500
    \* ---- the launch half of one _start_version call
    ds_pc,              \* "detect" | "launch" | "done" | "off"
    ds_files,           \* what _detect_start_command finds in the workspace
    start_command,      \* the local start_command
    ds_returned,        \* the value _start_version returned
    ds_spawned,         \* whether subprocess.Popen was called
    \* ---- the schema rule of one _compare_responses call
    sc_pc,              \* "extract" | "done" | "off"
    sc_body_a, sc_body_b,   \* the two response texts
    schema_a, schema_b, \* the locals schema_a and schema_b
    \* ---- the /analyze endpoint and its background analysis runs (main.py)
    clock,              \* datetime.now(), in whole seconds
    rq_pc,              \* request -> position of the request and of its run
    rq_commit,          \* request -> the commit_sha it was sent with
    rq_id,              \* request -> the analysis_id it was given
    analysis_storage    \* the module-level dict analysis_storage

runnerVars == <<runners, repo_path, commit_sha, parent_sha, version_a_process,
                version_b_process, pc, ret, setups, a_ready, proc, ws, nested, head>>
cmpVars == <<cmp_pc, resp_a, resp_b, lat_a, lat_b, comparison>>
runVars == <<run_pc, endpoints, test_requests, req_i, probe_a, probe_b,
             comparisons, discrepancies, run_result>>
anVars == <<an_pc, an_repo, an_ref, an_commit_sha, commit_exists, an_parent_sha,
            diff_stats, diff_content, changes, an_raised>>
pdVars == <<pd_pc, pd_content, pd_diffs>>
rdVars == <<rd_pc, rd_url, rd_probes, rd_last, rd_result, rd_answered>>
dsVars == <<ds_pc, ds_files, start_command, ds_returned, ds_spawned>>
scVars == <<sc_pc, sc_body_a, sc_body_b, schema_a, schema_b>>
asVars == <<clock, rq_pc, rq_commit, rq_id, analysis_storage>>
auxVars == <<pdVars, diff_fault, rdVars, dsVars, scVars, asVars>>
vars == <<runnerVars, cmpVars, runVars, anVars, auxVars>>

(***************************************************************************)
(* Bounds and the small universes inputs are drawn from.                   *)
(***************************************************************************)
MaxSetups == 2          \* setup_dual_deployment calls made on the machine

Runners == {"run1", "run2"}
Repos == {"repoX", "repoY"}
Commits == {"c0", "c1", "c2"}       \* history c0 <- c1 <- c2, c0 is the root
Labels == {"A", "B"}
None == "None"
NoProcess == <<>>       \* the None of a process handle
Absent == "absent"

\* git rev-parse <sha>^ : the first parent, None for the root commit
Parent(c) == CASE c = "c2" -> "c1" [] c = "c1" -> "c0" [] OTHER -> None

\* The files of each commit's tree that _detect_start_command looks at.
Tree(c) ==
    CASE c = "c0" -> {"README.md"}
      [] c = "c1" -> {"main.py"}
      [] c = "c2" -> {"package.json", "scripts.start", "main.py"}
      [] OTHER -> {}

ProcIds == Runners \X (1..MaxSetups) \X Labels
WsPaths == Repos \X Labels

\* __init__: the ports are the same literals in every runner
version_a_port == 8001
version_b_port == 8002
PortOf(label) == IF label = "A" THEN version_a_port ELSE version_b_port
ProcPort(p) == PortOf(p[3])

\* os.path.join(self.repo_path, f".gate_shadow_{version_label}")
temp_dir(r, label) == <<repo_path[r], label>>
ProcWorkspace(p) == temp_dir(p[1], p[3])

(***************************************************************************)
(* ShadowTrafficRunner: helpers.                                           *)
(***************************************************************************)
\* json.load(f) or the look into scripts raised inside _detect_start_command
DetectRaised == "raised"

\* _detect_start_command: first match wins.  "package.json:invalid" says that
\* the file is not valid JSON (or that its scripts entry is not a mapping).
detect_start_command(files) ==
    IF "package.json" \in files /\ "package.json:invalid" \in files THEN DetectRaised
    ELSE IF "package.json" \in files /\ "scripts.start" \in files THEN "npm start"
    ELSE IF "package.json" \in files /\ "scripts.dev" \in files THEN "npm run dev"
    ELSE IF "main.py" \in files THEN "python main.py"
    ELSE IF "app.py" \in files THEN "python app.py"
    ELSE IF "backend/main.py" \in files
         THEN "cd backend && uvicorn main:app --port $PORT"
    ELSE None

\* _is_correct_commit(temp_dir, sha): git rev-parse HEAD run with cwd = temp_dir.
\* The copy excludes .git, so git answers for the enclosing repository.
is_correct_commit(r, sha) == head[repo_path[r]] = sha

Handle(r, label) == IF label = "A" THEN version_a_process[r] ELSE version_b_process[r]
ThisCall(r, label) == <<r, setups[r], label>>

RECURSIVE SumSetups(_)
SumSetups(rs) ==
    IF rs = {} THEN 0
    ELSE LET r == CHOOSE x \in rs : TRUE IN setups[r] + SumSetups(rs \ {r})
TotalSetups == SumSetups(Runners)

\* process.terminate(): SIGTERM. A running process either exits during the
\* one-second grace period or survives it; a finished one is not signalled.
TerminateOutcomes(st) == IF st = "running" THEN {"running", "exited"} ELSE {st}

\* (mutant) the force-kill is left out
PollAndKill_NoKill(st) == st

\* if process.poll() is None: process.kill()
PollAndKill(st) == IF st = "running" THEN "exited" ELSE st

\* _check_server_ready(url): True only if one of the probes got an answer with
\* status < 500, which takes a live process serving that port on this machine.
Listening(port) == \E p \in ProcIds : proc[p] = "running" /\ ProcPort(p) = port
ReadyOutcomes(port) == IF Listening(port) THEN {TRUE, FALSE} ELSE {FALSE}

(***************************************************************************)
(* _start_version(commit_sha, port, label), as the next-state relation of  *)
(* the machine.  raises: an exception was raised once the workspace was   *)
(* in place (json.load in _detect_start_command, subprocess.Popen); the    *)
(* except branch returns False.  StartReturns is the value returned.       *)
(***************************************************************************)
Reclone(r, sha, label) ==
    ws[temp_dir(r, label)] = Absent \/ ~is_correct_commit(r, sha)

\* shutil.copytree(repo_path, temp_dir, ignore=('.git', ...)): the working tree,
\* i.e. the tree of the commit checked out now, with every workspace lying in it
WsAfterStart(r, sha, label) ==
    IF Reclone(r, sha, label)
    THEN [ws EXCEPT ![temp_dir(r, label)] = head[repo_path[r]]]
    ELSE ws

NestedAfterStart(r, sha, label) ==
    IF Reclone(r, sha, label)
    THEN [nested EXCEPT ![temp_dir(r, label)] =
            {l \in Labels \ {label} : ws[temp_dir(r, l)] # Absent}]
    ELSE nested

\* git checkout <sha> with cwd = temp_dir acts on the enclosing repository
HeadAfterStart(r, sha, label) ==
    IF Reclone(r, sha, label)
    THEN [head EXCEPT ![repo_path[r]] = sha]
    ELSE head

StartReturns(r, sha, label, raises) ==
    /\ detect_start_command(Tree(WsAfterStart(r, sha, label)[temp_dir(r, label)]))
            \notin {None, DetectRaised}
    /\ ~raises

start_version(r, sha, label, raises) ==
    /\ ws' = WsAfterStart(r, sha, label)
    /\ nested' = NestedAfterStart(r, sha, label)
    /\ head' = HeadAfterStart(r, sha, label)
    /\ IF StartReturns(r, sha, label, raises)
       THEN /\ proc' = [proc EXCEPT ![ThisCall(r, label)] = "running"]
            /\ IF label = "A"
               THEN /\ version_a_process' = [version_a_process EXCEPT ![r] = ThisCall(r, "A")]
                    /\ UNCHANGED version_b_process
               ELSE /\ version_b_process' = [version_b_process EXCEPT ![r] = ThisCall(r, "B")]
                    /\ UNCHANGED version_a_process
       ELSE UNCHANGED <<proc, version_a_process, version_b_process>>

(***************************************************************************)
(* setup_dual_deployment                                                   *)
(***************************************************************************)
\* git rev-parse <commit>^ ; on failure or exception the call returns at once
SetupBegin(r) ==
    /\ pc[r] = "idle"
    /\ TotalSetups < MaxSetups
    /\ setups' = [setups EXCEPT ![r] = @ + 1]
    /\ \E git_raises \in BOOLEAN :
        IF git_raises
        THEN /\ ret' = [ret EXCEPT ![r] = "setup_error"]
             /\ UNCHANGED <<pc, parent_sha>>
        ELSE IF Parent(commit_sha[r]) = None
        THEN /\ ret' = [ret EXCEPT ![r] = "setup_no_parent"]
             /\ UNCHANGED <<pc, parent_sha>>
        ELSE /\ parent_sha' = [parent_sha EXCEPT ![r] = Parent(commit_sha[r])]
             /\ pc' = [pc EXCEPT ![r] = "su_startA"]
             /\ ret' = [ret EXCEPT ![r] = "pending"]
    /\ UNCHANGED <<runners, repo_path, commit_sha, version_a_process, version_b_process,
                   a_ready, proc, ws, nested, head, cmpVars, runVars, anVars, auxVars>>

SetupStartA(r) ==
    /\ pc[r] = "su_startA"
    /\ \E raises \in BOOLEAN :
        /\ start_version(r, parent_sha[r], "A", raises)
        /\ IF StartReturns(r, parent_sha[r], "A", raises)
           THEN /\ pc' = [pc EXCEPT ![r] = "su_startB"]
                /\ UNCHANGED ret
           ELSE /\ pc' = [pc EXCEPT ![r] = "idle"]
                /\ ret' = [ret EXCEPT ![r] = "setup_failed_A"]
    /\ UNCHANGED <<runners, repo_path, commit_sha, parent_sha, setups, a_ready, cmpVars, runVars, anVars, auxVars>>

\* (mutant) the failure of version B is returned without stopping version A
SetupStartB_NoStop(r) ==
    /\ pc[r] = "su_startB"
    /\ \E raises \in BOOLEAN :
        /\ start_version(r, commit_sha[r], "B", raises)
        /\ IF StartReturns(r, commit_sha[r], "B", raises)
           THEN /\ pc' = [pc EXCEPT ![r] = "su_readyA"]
                /\ UNCHANGED ret
           ELSE /\ pc' = [pc EXCEPT ![r] = "idle"]
                /\ ret' = [ret EXCEPT ![r] = "setup_failed_B"]
    /\ UNCHANGED <<runners, repo_path, commit_sha, parent_sha, setups, a_ready, cmpVars, runVars, anVars, auxVars>>

SetupStartB(r) ==
    /\ pc[r] = "su_startB"
    /\ \E raises \in BOOLEAN :
        /\ start_version(r, commit_sha[r], "B", raises)
        /\ IF StartReturns(r, commit_sha[r], "B", raises)
           THEN pc' = [pc EXCEPT ![r] = "su_readyA"]
           ELSE pc' = [pc EXCEPT ![r] = "su_stopA"]
    /\ UNCHANGED <<runners, repo_path, commit_sha, parent_sha, setups, a_ready, ret, cmpVars, runVars, anVars, auxVars>>

\* await asyncio.sleep(3), then _check_server_ready(self.version_a_url)
SetupReadyA(r) ==
    /\ pc[r] = "su_readyA"
    /\ \E ready \in ReadyOutcomes(version_a_port) :
        a_ready' = [a_ready EXCEPT ![r] = ready]
    /\ pc' = [pc EXCEPT ![r] = "su_readyB"]
    /\ UNCHANGED <<runners, repo_path, commit_sha, parent_sha, version_a_process,
                   version_b_process, ret, setups, proc, ws, nested, head, cmpVars, runVars, anVars, auxVars>>

\* variant: the return value looks at version B's readiness only
SetupReadyB_IgnoreA(r) ==
    /\ pc[r] = "su_readyB"
    /\ \E version_b_ready \in ReadyOutcomes(version_b_port) :
        ret' = [ret EXCEPT ![r] =
                    IF ~version_b_ready
                    THEN "setup_not_ready" ELSE "setup_ok"]
    /\ pc' = [pc EXCEPT ![r] = "idle"]
    /\ UNCHANGED <<runners, repo_path, commit_sha, parent_sha, version_a_process,
                   version_b_process, setups, a_ready, proc, ws, nested, head, cmpVars, runVars, anVars, auxVars>>

\* _check_server_ready(self.version_b_url), then the two return statements
SetupReadyB(r) ==
    /\ pc[r] = "su_readyB"
    /\ \E version_b_ready \in ReadyOutcomes(version_b_port) :
        ret' = [ret EXCEPT ![r] =
                    IF ~a_ready[r] \/ ~version_b_ready
                    THEN "setup_not_ready" ELSE "setup_ok"]
    /\ pc' = [pc EXCEPT ![r] = "idle"]
    /\ UNCHANGED <<runners, repo_path, commit_sha, parent_sha, version_a_process,
                   version_b_process, setups, a_ready, proc, ws, nested, head, cmpVars, runVars, anVars, auxVars>>

(***************************************************************************)
(* _stop_version(label, process): terminate, sleep(1), poll, kill.         *)
(* It is called from setup_dual_deployment (version B did not start) and   *)
(* twice from cleanup.                                                     *)
(***************************************************************************)
StopLabel(r) == IF pc[r] \in {"cl_stopB", "cl_killB"} THEN "B" ELSE "A"

AfterStop(r) ==
    CASE pc[r] \in {"su_stopA", "su_killA"} -> "idle"
      [] pc[r] \in {"cl_stopA", "cl_killA"} -> "cl_stopB"
      [] OTHER -> "cl_rmtree"

RetAfterStop(r) ==
    IF pc[r] \in {"su_stopA", "su_killA"} THEN "setup_failed_B" ELSE ret[r]

\* if process: process.terminate(); await asyncio.sleep(1)
StopTerminate(r) ==
    /\ pc[r] \in {"su_stopA", "cl_stopA", "cl_stopB"}
    /\ IF Handle(r, StopLabel(r)) = NoProcess
       THEN /\ pc' = [pc EXCEPT ![r] = AfterStop(r)]
            /\ ret' = [ret EXCEPT ![r] = RetAfterStop(r)]
            /\ UNCHANGED proc
       ELSE /\ \E st \in TerminateOutcomes(proc[Handle(r, StopLabel(r))]) :
                proc' = [proc EXCEPT ![Handle(r, StopLabel(r))] = st]
            /\ pc' = [pc EXCEPT ![r] =
                        CASE pc[r] = "su_stopA" -> "su_killA"
                          [] pc[r] = "cl_stopA" -> "cl_killA"
                          [] OTHER -> "cl_killB"]
            /\ UNCHANGED ret
    /\ UNCHANGED <<runners, repo_path, commit_sha, parent_sha, version_a_process,
                   version_b_process, setups, a_ready, ws, nested, head, cmpVars, runVars, anVars, auxVars>>

\* if process.poll() is None: process.kill(); then the caller goes on
StopKill(r) ==
    /\ pc[r] \in {"su_killA", "cl_killA", "cl_killB"}
    /\ proc' = [proc EXCEPT ![Handle(r, StopLabel(r))] = PollAndKill(@)]
    /\ pc' = [pc EXCEPT ![r] = AfterStop(r)]
    /\ ret' = [ret EXCEPT ![r] = RetAfterStop(r)]
    /\ UNCHANGED <<runners, repo_path, commit_sha, parent_sha, version_a_process,
                   version_b_process, setups, a_ready, ws, nested, head, cmpVars, runVars, anVars, auxVars>>

(***************************************************************************)
(* cleanup                                                                 *)
(***************************************************************************)
CleanupBegin(r) ==
    /\ pc[r] = "idle"
    /\ pc' = [pc EXCEPT ![r] = "cl_stopA"]
    /\ ret' = [ret EXCEPT ![r] = "pending"]
    /\ UNCHANGED <<runners, repo_path, commit_sha, parent_sha, version_a_process,
                   version_b_process, setups, a_ready, proc, ws, nested, head, cmpVars, runVars, anVars, auxVars>>

\* for label in ["A", "B"]: shutil.rmtree(temp_dir, ignore_errors=True)
WsAfterCleanup(r) ==
    [w \in WsPaths |-> IF w[1] = repo_path[r] THEN Absent ELSE ws[w]]

CleanupRmtree(r) ==
    /\ pc[r] = "cl_rmtree"
    /\ ws' = WsAfterCleanup(r)
    /\ nested' = [w \in WsPaths |-> IF w[1] = repo_path[r] THEN {} ELSE nested[w]]
    /\ pc' = [pc EXCEPT ![r] = "idle"]
    /\ ret' = [ret EXCEPT ![r] = "cleaned"]
    /\ UNCHANGED <<runners, repo_path, commit_sha, parent_sha, version_a_process,
                   version_b_process, setups, a_ready, proc, head, cmpVars, runVars, anVars, auxVars>>

(***************************************************************************)
(* run_shadow_comparison, seen from the machine: it probes the two base    *)
(* URLs and returns its success or its error result; it touches neither    *)
(* the processes nor the workspaces.                                       *)
(***************************************************************************)
RunShadowComparison(r) ==
    /\ pc[r] = "idle"
    /\ ret[r] = "setup_ok"
    /\ \E raised \in BOOLEAN :
        ret' = [ret EXCEPT ![r] = IF raised THEN "run_error" ELSE "run_ok"]
    /\ UNCHANGED <<runners, repo_path, commit_sha, parent_sha, version_a_process,
                   version_b_process, pc, setups, a_ready, proc, ws, nested, head, cmpVars, runVars, anVars, auxVars>>

\* The environment: a launched application may exit by itself at any time.
ProcExit(p) ==
    /\ proc[p] = "running"
    /\ proc' = [proc EXCEPT ![p] = "exited"]
    /\ UNCHANGED <<runners, repo_path, commit_sha, parent_sha, version_a_process,
                   version_b_process, pc, ret, setups, a_ready, ws, nested, head, cmpVars, runVars, anVars, auxVars>>

(***************************************************************************)
(* Specification Spec: two runners on one machine.                         *)
(***************************************************************************)
RunnerIdle ==
    /\ parent_sha = [r \in Runners |-> None]
    /\ version_a_process = [r \in Runners |-> NoProcess]
    /\ version_b_process = [r \in Runners |-> NoProcess]
    /\ pc = [r \in Runners |-> "idle"]
    /\ ret = [r \in Runners |-> "none"]
    /\ setups = [r \in Runners |-> 0]
    /\ a_ready = [r \in Runners |-> FALSE]
    /\ proc = [p \in ProcIds |-> "none"]
    /\ ws = [w \in WsPaths |-> Absent]
    /\ nested = [w \in WsPaths |-> {}]

CmpOff ==
    /\ cmp_pc = "off"
    /\ resp_a = None /\ resp_b = None
    /\ lat_a = 0 /\ lat_b = 0
    /\ comparison = None

RunOff ==
    /\ run_pc = "off"
    /\ endpoints = <<>> /\ test_requests = <<>>
    /\ req_i = 0
    /\ probe_a = None /\ probe_b = None
    /\ comparisons = <<>> /\ discrepancies = <<>>
    /\ run_result = None

PdOff == pd_pc = "off" /\ pd_content = <<>> /\ pd_diffs = <<>>
FaultOff == diff_fault = "none"
\* what one probe of _check_server_ready does: a response, or an exception
ProbeResponse(status) == [raised |-> FALSE, status |-> status]
ProbeRaised == [raised |-> TRUE, status |-> 0]
RdOff ==
    /\ rd_pc = "off" /\ rd_url = None /\ rd_probes = 0
    /\ rd_last = ProbeRaised /\ rd_result = FALSE /\ rd_answered = FALSE
DsOff ==
    /\ ds_pc = "off" /\ ds_files = {} /\ start_command = None
    /\ ds_returned = FALSE /\ ds_spawned = FALSE
ScOff ==
    /\ sc_pc = "off" /\ sc_body_a = "" /\ sc_body_b = ""
    /\ schema_a = None /\ schema_b = None
MaxSeconds == 1         \* seconds the clock runs through
Requests == {"req1", "req2"}     \* the /analyze requests received
NoId == <<>>            \* no analysis_id was given
EmptyStorage == [i \in {} |-> 0]     \* analysis_storage = {}
AsOff ==
    /\ clock = 0
    /\ rq_pc = [q \in Requests |-> "off"]
    /\ rq_commit = [q \in Requests |-> ""]
    /\ rq_id = [q \in Requests |-> NoId]
    /\ analysis_storage = EmptyStorage
AuxOff == PdOff /\ FaultOff /\ RdOff /\ DsOff /\ ScOff /\ AsOff

\* no exception was raised
NoError == [type |-> "none", message |-> <<>>]

AnOff ==
    /\ an_pc = "off"
    /\ an_repo = None /\ an_ref = None /\ an_commit_sha = None
    /\ commit_exists = None /\ an_parent_sha = None
    /\ diff_stats = <<>> /\ diff_content = <<>>
    /\ changes = None /\ an_raised = NoError

\* one runner, constructed for any commit of repoX, whose checkout is at any commit
Init ==
    /\ runners = {"run1"}
    /\ repo_path = [r \in Runners |-> "repoX"]
    /\ commit_sha \in [Runners -> Commits]
    /\ commit_sha["run2"] = "c1"
    /\ head \in [Repos -> Commits]
    /\ head["repoY"] = "c1"
    /\ RunnerIdle
    /\ CmpOff
    /\ RunOff
    /\ AnOff
    /\ AuxOff

Next ==
    \/ \E r \in runners : SetupBegin(r)
    \/ \E r \in runners : SetupStartA(r)
    \/ \E r \in runners : SetupStartB(r)
    \/ \E r \in runners : SetupReadyA(r)
    \/ \E r \in runners : SetupReadyB(r)
    \/ \E r \in runners : StopTerminate(r)
    \/ \E r \in runners : StopKill(r)
    \/ \E r \in runners : CleanupBegin(r)
    \/ \E r \in runners : CleanupRmtree(r)
    \/ \E r \in runners : RunShadowComparison(r)
    \/ \E p \in ProcIds : ProcExit(p)

Spec == Init /\ [][Next]_vars

(***************************************************************************)
(* Specification SpecDual: two comparison runs at the same time, on the    *)
(* same repository or on two repositories.                                 *)
(***************************************************************************)
InitDual ==
    /\ runners = Runners
    /\ repo_path \in [Runners -> Repos]
    /\ repo_path["run1"] = "repoX"
    /\ commit_sha \in [Runners -> Commits]
    /\ head \in [Repos -> Commits]
    /\ RunnerIdle
    /\ CmpOff
    /\ RunOff
    /\ AnOff
    /\ AuxOff

SpecDual == InitDual /\ [][Next]_vars

(***************************************************************************)
(* One comparison.  Python values are tagged records [t, v]: t is the      *)
(* value's type name, v its content (a dict is a function on its keys, a   *)
(* list a sequence).                                                       *)
(***************************************************************************)
PyNone == [t |-> "NoneType", v |-> 0]
PyBool(b) == [t |-> "bool", v |-> b]
PyInt(i) == [t |-> "int", v |-> i]
PyStr(x) == [t |-> "str", v |-> x]
PyList(l) == [t |-> "list", v |-> l]
PyDict(d) == [t |-> "dict", v |-> d]

\* bool(x): what `if x` and `a and b` test
Truthy(x) ==
    CASE x.t = "NoneType" -> FALSE
      [] x.t = "bool" -> x.v
      [] x.t = "int" -> x.v # 0
      [] x.t = "str" -> x.v # ""
      [] x.t = "list" -> x.v # <<>>
      [] x.t = "dict" -> DOMAIN x.v # {}
      [] OTHER -> TRUE

\* The response bodies the two versions may send.
BodyTexts ==
    { "{\"ok\":true}", "{\"ok\":false}", "{\"error\":\"x\"}",
      "{\"ok\":true,\"items\":[1,2]}", "{}", "[]", "[1,2]", "[1, 2]", "0", "null",
      "Internal Server Error" }

\* json.loads(body) on those bodies; JsonError stands for the exception raised
JsonError == [t |-> "JSONDecodeError", v |-> 0]
json_loads(body) ==
    CASE body = "{\"ok\":true}" -> PyDict([k \in {"ok"} |-> PyBool(TRUE)])
      [] body = "{\"ok\":false}" -> PyDict([k \in {"ok"} |-> PyBool(FALSE)])
      [] body = "{\"error\":\"x\"}" -> PyDict([k \in {"error"} |-> PyStr("x")])
      [] body = "{\"ok\":true,\"items\":[1,2]}" ->
            PyDict([k \in {"ok", "items"} |->
                      IF k = "ok" THEN PyBool(TRUE) ELSE PyList(<<PyInt(1), PyInt(2)>>)])
      [] body = "{}" -> PyDict([k \in {} |-> PyNone])
      [] body = "[]" -> PyList(<<>>)
      [] body = "[1,2]" -> PyList(<<PyInt(1), PyInt(2)>>)
      [] body = "[1, 2]" -> PyList(<<PyInt(1), PyInt(2)>>)
      [] body = "0" -> PyInt(0)
      [] body = "null" -> PyNone
      [] body = "{\"a\":1,\"b\":\"x\"}" ->
            PyDict([k \in {"a", "b"} |-> IF k = "a" THEN PyInt(1) ELSE PyStr("x")])
      [] body = "{\"b\":\"x\",\"a\":1}" ->
            PyDict([k \in {"b", "a"} |-> IF k = "b" THEN PyStr("x") ELSE PyInt(1)])
      [] body = "{\"a\":2,\"b\":\"y\"}" ->
            PyDict([k \in {"a", "b"} |-> IF k = "a" THEN PyInt(2) ELSE PyStr("y")])
      [] body = "{\"a\":\"x\",\"b\":1}" ->
            PyDict([k \in {"a", "b"} |-> IF k = "a" THEN PyStr("x") ELSE PyInt(1)])
      [] body = "{\"a\":[1]}" -> PyDict([k \in {"a"} |-> PyList(<<PyInt(1)>>)])
      [] body = "{\"a\":[]}" -> PyDict([k \in {"a"} |-> PyList(<<>>)])
      [] body = "[1,\"x\"]" -> PyList(<<PyInt(1), PyStr("x")>>)
      [] body = "[\"x\",1]" -> PyList(<<PyStr("x"), PyInt(1)>>)
      [] body = "[7]" -> PyList(<<PyInt(7)>>)
      [] body = "[[1],2]" -> PyList(<<PyList(<<PyInt(1)>>), PyInt(2)>>)
      [] body = "\"x\"" -> PyStr("x")
      [] body = "true" -> PyBool(TRUE)
      [] OTHER -> JsonError

Statuses == {200, 404, 500}
Latencies == {0, 40, 140, 141, 260}     \* milliseconds

\* _send_request, normal return: the response dict
Response(status, body) ==
    [ status |-> status,
      body |-> body,
      body_json |-> IF json_loads(body) = JsonError THEN PyNone ELSE json_loads(body),
      size |-> Len(body) ]

\* _send_request, except branch: the request raised (refused, timed out, ...)
FailedResponse ==
    [ status |-> 0, body |-> None, body_json |-> PyNone, size |-> 0 ]

\* (mutant) a list is reduced to the shapes of all its elements
RECURSIVE extract_schema_AllElements(_)
extract_schema_AllElements(obj) ==
    IF obj.t = "dict"
    THEN [t |-> "dict", v |-> [k \in DOMAIN obj.v |-> extract_schema_AllElements(obj.v[k])]]
    ELSE IF obj.t = "list" /\ Len(obj.v) > 0
    THEN [t |-> "list", v |-> [i \in DOMAIN obj.v |-> extract_schema_AllElements(obj.v[i])]]
    ELSE [t |-> "str", v |-> obj.t]

\* _extract_schema
RECURSIVE extract_schema(_)
extract_schema(obj) ==
    IF obj.t = "dict"
    THEN [t |-> "dict", v |-> [k \in DOMAIN obj.v |-> extract_schema(obj.v[k])]]
    ELSE IF obj.t = "list" /\ Len(obj.v) > 0
    THEN [t |-> "list", v |-> <<extract_schema(obj.v[1])>>]
    ELSE [t |-> "str", v |-> obj.t]

LatencyThreshold == 100     \* if latency_increase > 100
SizeChangeDivisor == 5      \* if size_change > 0.2, i.e. 5 * |size_b - size_a| > size_a

Abs(n) == IF n < 0 THEN -n ELSE n

\* (mutant) a failed probe (status 0) is not counted as a status change
StatusDiffers_IgnoreFailed(a, b) ==
    a.status # b.status /\ a.status # 0 /\ b.status # 0

\* (mutant) the schema rule is skipped once the status rule fired (elif)
SchemaDiffers_ShortCircuit(a, b) ==
    /\ a.status = b.status
    /\ Truthy(a.body_json) /\ Truthy(b.body_json)
    /\ extract_schema(a.body_json) # extract_schema(b.body_json)

\* (mutant) the latency rule fires from the threshold on (>= instead of >)
LatencyIncreased_AtThreshold(la, lb) == lb - la >= LatencyThreshold

\* (mutant) the latency rule looks at the size of the change, not its direction
LatencyIncreased_AnyChange(la, lb) == Abs(lb - la) > LatencyThreshold

\* (mutant) the size rule fires from 20 % on (>= instead of >)
SizeChanged_AtThreshold(a, b) ==
    /\ a.size > 0
    /\ SizeChangeDivisor * Abs(b.size - a.size) >= a.size

\* The four rules of _compare_responses, each as the condition of its if.
StatusDiffers(a, b) == a.status # b.status
SchemaDiffers(a, b) ==
    /\ Truthy(a.body_json) /\ Truthy(b.body_json)
    /\ extract_schema(a.body_json) # extract_schema(b.body_json)
LatencyIncreased(la, lb) == lb - la > LatencyThreshold
SizeChanged(a, b) ==
    /\ a.size > 0
    /\ SizeChangeDivisor * Abs(b.size - a.size) > a.size

Discrepancy(type, critical) == [type |-> type, critical |-> critical]

\* (mutant) the size rule appends its discrepancy without setting has_discrepancy
compare_responses_SizeFlagLost(a, la, b, lb) ==
    [ has_discrepancy |->
          \/ StatusDiffers(a, b) \/ SchemaDiffers(a, b) \/ LatencyIncreased(la, lb),
      critical |-> StatusDiffers(a, b),
      discrepancies |->
          (IF StatusDiffers(a, b)
             THEN <<Discrepancy("status_code_mismatch", TRUE)>> ELSE <<>>)
          \o (IF SchemaDiffers(a, b)
                THEN <<Discrepancy("schema_change", FALSE)>> ELSE <<>>)
          \o (IF LatencyIncreased(la, lb)
                THEN <<Discrepancy("latency_increase", FALSE)>> ELSE <<>>)
          \o (IF SizeChanged(a, b)
                THEN <<Discrepancy("response_size_change", FALSE)>> ELSE <<>>),
      version_a |-> [status |-> a.status, latency_ms |-> la, size |-> a.size],
      version_b |-> [status |-> b.status, latency_ms |-> lb, size |-> b.size] ]

\* _compare_responses (endpoint, method and the description texts left out:
\* they are copied through and decide nothing)
compare_responses(a, la, b, lb) ==
    [ has_discrepancy |->
          \/ StatusDiffers(a, b) \/ SchemaDiffers(a, b)
          \/ LatencyIncreased(la, lb) \/ SizeChanged(a, b),
      critical |-> StatusDiffers(a, b),
      discrepancies |->
          (IF StatusDiffers(a, b)
             THEN <<Discrepancy("status_code_mismatch", TRUE)>> ELSE <<>>)
          \o (IF SchemaDiffers(a, b)
                THEN <<Discrepancy("schema_change", FALSE)>> ELSE <<>>)
          \o (IF LatencyIncreased(la, lb)
                THEN <<Discrepancy("latency_increase", FALSE)>> ELSE <<>>)
          \o (IF SizeChanged(a, b)
                THEN <<Discrepancy("response_size_change", FALSE)>> ELSE <<>>),
      version_a |-> [status |-> a.status, latency_ms |-> la, size |-> a.size],
      version_b |-> [status |-> b.status, latency_ms |-> lb, size |-> b.size] ]

\* version_a_response, version_a_time = await self._send_request(...)
SendRequestA ==
    /\ cmp_pc = "sendA"
    /\ \/ \E st \in Statuses, body \in BodyTexts : resp_a' = Response(st, body)
       \/ resp_a' = FailedResponse
    /\ lat_a' \in Latencies
    /\ cmp_pc' = "sendB"
    /\ UNCHANGED <<resp_b, lat_b, comparison, runnerVars, runVars, anVars, auxVars>>

\* version_b_response, version_b_time = await self._send_request(...)
SendRequestB ==
    /\ cmp_pc = "sendB"
    /\ \/ \E st \in Statuses, body \in BodyTexts : resp_b' = Response(st, body)
       \/ resp_b' = FailedResponse
    /\ lat_b' \in Latencies
    /\ cmp_pc' = "compare"
    /\ UNCHANGED <<resp_a, lat_a, comparison, runnerVars, runVars, anVars, auxVars>>

\* comparison = self._compare_responses(...)
CompareResponses ==
    /\ cmp_pc = "compare"
    /\ comparison' = compare_responses(resp_a, lat_a, resp_b, lat_b)
    /\ cmp_pc' = "done"
    /\ UNCHANGED <<resp_a, resp_b, lat_a, lat_b, runnerVars, runVars, anVars, auxVars>>

InitCompare ==
    /\ runners = {}
    /\ repo_path = [r \in Runners |-> "repoX"]
    /\ commit_sha = [r \in Runners |-> "c1"]
    /\ head = [r \in Repos |-> "c1"]
    /\ RunnerIdle
    /\ cmp_pc = "sendA"
    /\ resp_a = FailedResponse /\ resp_b = FailedResponse
    /\ lat_a = 0 /\ lat_b = 0
    /\ comparison = None
    /\ RunOff
    /\ AnOff
    /\ AuxOff

NextCompare == SendRequestA \/ SendRequestB \/ CompareResponses

SpecCompare == InitCompare /\ [][NextCompare]_vars

(***************************************************************************)
(* Specification SpecRun: one call of run_shadow_comparison.  The request  *)
(* list is walked in order; each of the two awaits on _send_request and    *)
(* the comparison that follows is one step.                                *)
(***************************************************************************)
MaxRequests == 2        \* length of the endpoints / test_requests lists

\* dict.get(key, default)
Get(d, k, default) == IF k \in DOMAIN d THEN d[k] ELSE default

\* The request (and endpoint) dicts a caller may pass; the last one has a
\* path that is not a string.  Headers are passed through and left out.
RequestPool ==
    { [method |-> "GET", path |-> "/health"],
      [method |-> "POST", path |-> "/items"],
      [path |-> "/users"],
      [method |-> "GET", path |-> None] }

RECURSIVE SeqsUpTo(_, _)
SeqsUpTo(S, n) ==
    IF n = 0 THEN {<<>>}
    ELSE LET shorter == SeqsUpTo(S, n - 1)
         IN shorter \cup {Append(q, x) : q \in shorter, x \in S}

RequestLists == SeqsUpTo(RequestPool, MaxRequests)

\* _generate_test_requests
generate_test_requests(eps) ==
    [ i \in 1..Len(eps) |->
        LET path == Get(eps[i], "path", "/")
            method == Get(eps[i], "method", "GET")
        IN IF method \in {"POST", "PUT", "PATCH"}
             THEN [method |-> method, path |-> path, data |-> "{}"]
             ELSE [method |-> method, path |-> path] ]

\* self.version_a_url + path raises TypeError unless path is a str
UrlRaises(path) == path = None

\* What one _send_request call may return: (response, latency in ms)
ProbeOutcomes ==
    { <<Response(200, "{\"ok\":true}"), 40>>,
      <<Response(500, "Internal Server Error"), 140>>,
      <<FailedResponse, 260>> }

comparisons_append_DropFailed(cs, c) ==
    IF c.version_a.status = 0 \/ c.version_b.status = 0 THEN cs ELSE Append(cs, c)

\* comparisons.append(comparison)
comparisons_append(cs, c) == Append(cs, c)

\* the dict built by the except branch of run_shadow_comparison
RunError(cs, ds) ==
    [success |-> FALSE, comparisons |-> cs, discrepancies |-> ds]

\* the dict returned after the loop
RunSuccess(cs, ds) ==
    [success |-> TRUE, comparisons |-> cs, discrepancies |-> ds,
     total_compared |-> Len(cs), discrepancies_found |-> Len(ds)]

\* if not test_requests: test_requests = self._generate_test_requests(endpoints)
RunStart ==
    /\ run_pc = "start"
    /\ test_requests' = IF test_requests = <<>>
                          THEN generate_test_requests(endpoints)
                          ELSE test_requests
    /\ req_i' = 1
    /\ run_pc' = "for"
    /\ UNCHANGED <<endpoints, probe_a, probe_b, comparisons, discrepancies,
                   run_result, runnerVars, cmpVars, anVars, auxVars>>

\* for request in test_requests: ... ; after the last one, return
RunFor ==
    /\ run_pc = "for"
    /\ IF req_i <= Len(test_requests)
         THEN /\ run_pc' = "sendA"
              /\ UNCHANGED run_result
         ELSE /\ run_pc' = "done"
              /\ run_result' = RunSuccess(comparisons, discrepancies)
    /\ UNCHANGED <<endpoints, test_requests, req_i, probe_a, probe_b, comparisons,
                   discrepancies, runnerVars, cmpVars, anVars, auxVars>>

\* await self._send_request(session, self.version_a_url + path, ...)
RunSendA ==
    /\ run_pc = "sendA"
    /\ IF UrlRaises(Get(test_requests[req_i], "path", "/"))
         THEN /\ run_pc' = "done"
              /\ run_result' = RunError(comparisons, discrepancies)
              /\ UNCHANGED probe_a
         ELSE /\ probe_a' \in ProbeOutcomes
              /\ run_pc' = "sendB"
              /\ UNCHANGED run_result
    /\ UNCHANGED <<endpoints, test_requests, req_i, probe_b, comparisons,
                   discrepancies, runnerVars, cmpVars, anVars, auxVars>>

\* await self._send_request(session, self.version_b_url + path, ...)
RunSendB ==
    /\ run_pc = "sendB"
    /\ probe_b' \in ProbeOutcomes
    /\ run_pc' = "compare"
    /\ UNCHANGED <<endpoints, test_requests, req_i, probe_a, comparisons,
                   discrepancies, run_result, runnerVars, cmpVars, anVars, auxVars>>

\* comparison = self._compare_responses(...); the two appends
RunCompare ==
    /\ run_pc = "compare"
    /\ LET request == test_requests[req_i]
           c == [endpoint |-> Get(request, "path", "/"),
                 method |-> Get(request, "method", "GET")]
                @@ compare_responses(probe_a[1], probe_a[2], probe_b[1], probe_b[2])
       IN /\ comparisons' = comparisons_append(comparisons, c)
          /\ discrepancies' = IF c.has_discrepancy
                                THEN Append(discrepancies, c) ELSE discrepancies
    /\ req_i' = req_i + 1
    /\ run_pc' = "for"
    /\ UNCHANGED <<endpoints, test_requests, probe_a, probe_b, run_result,
                   runnerVars, cmpVars, anVars, auxVars>>

InitRun ==
    /\ runners = {}
    /\ repo_path = [r \in Runners |-> "repoX"]
    /\ commit_sha = [r \in Runners |-> "c1"]
    /\ head = [r \in Repos |-> "c1"]
    /\ RunnerIdle
    /\ CmpOff
    /\ run_pc = "start"
    /\ \/ test_requests \in RequestLists \ {<<>>} /\ endpoints = <<>>
       \/ test_requests = <<>> /\ endpoints \in RequestLists
    /\ req_i = 0
    /\ probe_a = None /\ probe_b = None
    /\ comparisons = <<>> /\ discrepancies = <<>>
    /\ run_result = None
    /\ AnOff
    /\ AuxOff

NextRun == RunStart \/ RunFor \/ RunSendA \/ RunSendB \/ RunCompare

SpecRun == InitRun /\ [][NextRun]_vars

(***************************************************************************)
(* Specification SpecAnalyze: one call of RepoAnalyzer.analyze_changes     *)
(* (backend/utils/repo_analyzer.py).  Every git subprocess is one step.    *)
(* Git itself is modelled by its answers on two small repositories.        *)
(***************************************************************************)
\* Object names of the commits.  "proj": R0 <- K1 <- K2 (K1 and K2 share their
\* first seven characters); "lib": L0 <- L1.
R0 == "06751cc23f83465a763f97902316d1dfe8fe79bc"
K1 == "3988abc1a2ab1959c1c3bfa295b0fc9019937827"
K2 == "3988abc2bfeb734d2eb5d0915145c1861248757d"
L0 == "b41f0e7b497913a9aa82a0cb578d8aabaffc64bc"
L1 == "7c2d9a539a89dd158c8e9747943b00f84be79fc3"
AllCommits == {R0, K1, K2, L0, L1}

\* the directories analyze_changes may be pointed at; "export" has no .git
AnRepos == {"proj", "lib", "export"}
HasDotGit(repo) == repo \in {"proj", "lib"}
CommitsOf(repo) ==
    CASE repo = "proj" -> {R0, K1, K2}
      [] repo = "lib" -> {L0, L1}
      [] OTHER -> {}

\* One changed file of a commit: lines added and deleted against the parent
FileChange(path, added, deleted) == [path |-> path, added |-> added, deleted |-> deleted]

\* The commit objects: first parent, subject line (words) and changed files
CommitObject(sha) ==
    CASE sha = R0 -> [parent |-> None, subject |-> <<"initial", "import">>,
                      files |-> <<FileChange("a.py", 10, 0)>>]
      [] sha = K1 -> [parent |-> R0, subject |-> <<"revert", "deadbee">>,
                      files |-> <<FileChange("a.py", 1, 1), FileChange("b.py", 2, 0)>>]
      [] sha = K2 -> [parent |-> K1, subject |-> <<"extend", "b">>,
                      files |-> <<FileChange("b.py", 5, 0)>>]
      [] sha = L0 -> [parent |-> None, subject |-> <<"first", "version">>,
                      files |-> <<FileChange("a.py", 2, 0)>>]
      [] sha = L1 -> [parent |-> L0, subject |-> <<"tidy">>,
                      files |-> <<>>]

\* the first seven characters of an object name (sha[:7])
Abbrev7(sha) ==
    CASE sha = R0 -> "06751cc"
      [] sha = K1 -> "3988abc"
      [] sha = K2 -> "3988abc"
      [] sha = L0 -> "b41f0e7"
      [] sha = L1 -> "7c2d9a5"

\* refs/heads/main of each repository, and the annotated tag v1 of proj
Branch(repo, name) ==
    CASE repo = "proj" /\ name = "main" -> {K2}
      [] repo = "lib" /\ name = "main" -> {L1}
      [] OTHER -> {}
AnnotatedTag(repo, name) == IF repo = "proj" /\ name = "v1" THEN {K1} ELSE {}

\* The references a caller may pass as commit_sha
AnRefs ==
    { "", R0, K1, K2, L0, L1, "06751cc", "3988abc", "main", "v1", "deadbeef",
      "0123456" }

\* git's object-name lookup: the commits of the repository a name stands for
\* (full name, abbreviation or branch); several commits = ambiguous
CommitsNamed(repo, ref) ==
    {c \in CommitsOf(repo) : c = ref \/ Abbrev7(c) = ref} \cup Branch(repo, ref)

\* git cat-file -t <ref> through _run_git_command: the type, None on failure
cat_file_t(repo, ref) ==
    IF AnnotatedTag(repo, ref) # {} THEN "tag"
    ELSE IF Cardinality(CommitsNamed(repo, ref)) = 1 THEN "commit"
    ELSE None

\* git rev-parse --verify <ref>^{commit}: the full name, None when it fails
\* (no such object, or "short object ID ... is ambiguous")
rev_parse_verify(repo, ref) ==
    LET named == CommitsNamed(repo, ref) \cup AnnotatedTag(repo, ref)
    IN IF Cardinality(named) = 1 THEN CHOOSE c \in named : TRUE ELSE None

\* git rev-parse <ref>^ through _run_git_command: None for a root commit
rev_parse_parent(repo, ref) ==
    IF rev_parse_verify(repo, ref) = None THEN None
    ELSE CommitObject(rev_parse_verify(repo, ref)).parent

\* commit_sha[:7]
First7(ref) ==
    IF Len(ref) <= 7 THEN ref
    ELSE IF ref \in AllCommits THEN Abbrev7(ref)
    ELSE CASE ref = "deadbeef" -> "deadbee"

\* git log --oneline --all --grep=<pattern> -n 1: the abbreviated name of the
\* newest commit whose message has the pattern, None when there is none
NewestFirst(repo) ==
    CASE repo = "proj" -> <<K2, K1, R0>>
      [] repo = "lib" -> <<L1, L0>>
      [] OTHER -> <<>>
Grep(sha, pattern) == \E i \in DOMAIN CommitObject(sha).subject :
                          CommitObject(sha).subject[i] = pattern
git_log_grep(repo, pattern) ==
    LET order == NewestFirst(repo)
        hits == {i \in DOMAIN order : Grep(order[i], pattern)}
    IN IF hits = {} THEN None
       ELSE Abbrev7(order[CHOOSE i \in hits : \A j \in hits : i <= j])

\* (a name git cannot resolve makes each of the commands below fail)
\* ---- text produced by git.  A line is a sequence of tokens: the characters
\* "|", "+" and "-" are tokens of their own, a token " " is white space, and
\* any other token is a run of characters free of those four.
RECURSIVE Rep(_, _)
Rep(tok, n) == IF n = 0 THEN <<>> ELSE <<tok>> \o Rep(tok, n - 1)

RECURSIVE Flatten(_)
Flatten(seqs) == IF seqs = <<>> THEN <<>> ELSE Head(seqs) \o Flatten(Tail(seqs))

RECURSIVE SumOf(_, _)
SumOf(files, field) ==
    IF files = <<>> THEN 0 ELSE Head(files)[field] + SumOf(Tail(files), field)

\* " a.py | 10 ++++++++++"
StatLine(f) ==
    <<" ", f.path, " ", "|", " ", ToString(f.added + f.deleted), " ">>
        \o Rep("+", f.added) \o Rep("-", f.deleted)

\* " 1 file changed, 10 insertions(+), 1 deletion(-)"
SummaryLine(files) ==
    <<" ", ToString(Len(files)), " files changed">>
        \o (IF SumOf(files, "added") > 0
              THEN <<", ", ToString(SumOf(files, "added")), " insertions(", "+", ")">>
              ELSE <<>>)
        \o (IF SumOf(files, "deleted") > 0
              THEN <<", ", ToString(SumOf(files, "deleted")), " deletions(", "-", ")">>
              ELSE <<>>)

StatLines(files) ==
    IF files = <<>> THEN <<>>
    ELSE [i \in 1..Len(files) |-> StatLine(files[i])] \o <<SummaryLine(files)>>

\* the header git show prints before the stat or the patch
ShowHeader(sha) ==
    << <<"commit ", sha>>,
       <<"Author: Dev <dev@example.com>">>,
       <<"Date:   Thu Nov 5 10:00:00 2026 ", "+", "0000">>,
       <<>>,
       <<" ", " ", " ", " ">> \o CommitObject(sha).subject,
       <<>> >>

\* the patch of one file: only the line kinds the parsers look at
PatchLines(f) ==
    << [kind |-> "diff --git", path |-> f.path],
       [kind |-> "--- a/", path |-> f.path],
       [kind |-> "+++ b/", path |-> f.path],
       [kind |-> "hunk", path |-> f.path] >>
Patch(files) == Flatten([i \in 1..Len(files) |-> PatchLines(files[i])])

\* _run_git_command returns None when git fails and when it prints nothing;
\* the callers only test the result for truth, and NoOutput is that result
NoOutput == <<>>
Output(lines) == lines

\* git diff --stat <parent> <sha>   (sha is a name the repository resolves)
git_diff_stat(repo, sha) ==
    IF rev_parse_verify(repo, sha) = None THEN NoOutput
    ELSE Output(StatLines(CommitObject(rev_parse_verify(repo, sha)).files))
\* git diff <parent> <sha>
git_diff(repo, sha) ==
    IF rev_parse_verify(repo, sha) = None THEN NoOutput
    ELSE Output(Patch(CommitObject(rev_parse_verify(repo, sha)).files))
\* git diff -U5 <parent> <sha>: the same sections with wider context
git_diff_U5(repo, sha) == git_diff(repo, sha)
\* git show --stat <sha>
git_show_stat(repo, sha) ==
    IF rev_parse_verify(repo, sha) = None THEN NoOutput
    ELSE Output(ShowHeader(rev_parse_verify(repo, sha))
                  \o StatLines(CommitObject(rev_parse_verify(repo, sha)).files))
\* git show <sha>
git_show(repo, sha) ==
    IF rev_parse_verify(repo, sha) = None THEN NoOutput
    ELSE Output([i \in 1..6 |-> [kind |-> "header", path |-> None]]
                  \o Patch(CommitObject(rev_parse_verify(repo, sha)).files))
\* git show --no-patch --format=%s... <sha>: the subject line
git_show_subject(repo, sha) ==
    IF rev_parse_verify(repo, sha) = None THEN NoOutput
    ELSE CommitObject(rev_parse_verify(repo, sha)).subject

\* ---- the parsers
\* needle in line, for a one-character needle
Has(line, tok) == \E i \in DOMAIN line : line[i] = tok
\* '+++' in line / '---' in line
HasRun3(line, tok) ==
    \E i \in 1..(Len(line) - 2) : line[i] = tok /\ line[i+1] = tok /\ line[i+2] = tok
\* s.count(tok)
RECURSIVE Count(_, _)
Count(line, tok) ==
    IF line = <<>> THEN 0
    ELSE (IF Head(line) = tok THEN 1 ELSE 0) + Count(Tail(line), tok)
\* s.strip(), then the text of what is left
RECURSIVE Strip(_)
Strip(line) ==
    IF line = <<>> THEN <<>>
    ELSE IF Head(line) = " " THEN Strip(Tail(line))
    ELSE IF line[Len(line)] = " " THEN Strip(SubSeq(line, 1, Len(line) - 1))
    ELSE line
RECURSIVE Text(_)
Text(line) == IF line = <<>> THEN "" ELSE Head(line) \o Text(Tail(line))

FirstBar(line) == CHOOSE i \in DOMAIN line : line[i] = "|" /\ \A j \in 1..(i-1) : line[j] # "|"

\* the body of the loop of _parse_git_diff for one line: the entry appended
\* to modified_files, or <<>> when the line is skipped
parse_stat_line(line) ==
    IF Has(line, "|") /\ ~HasRun3(line, "+") /\ ~HasRun3(line, "-") /\ Count(line, "|") = 1
      THEN LET bar == FirstBar(line)
               stats == SubSeq(line, bar + 1, Len(line))
           IN << [path |-> Text(Strip(SubSeq(line, 1, bar - 1))),
                  additions |-> Count(stats, "+"),
                  deletions |-> Count(stats, "-")] >>
      ELSE <<>>

\* _parse_git_diff
RECURSIVE parse_git_diff(_, _)
parse_git_diff(lines, ch) ==
    IF lines = <<>> THEN ch
    ELSE LET entry == parse_stat_line(Head(lines))
             next == [ch EXCEPT
                        !.modified_files = @ \o entry,
                        !.total_additions = @ + SumOf(entry, "additions"),
                        !.total_deletions = @ + SumOf(entry, "deletions")]
         IN parse_git_diff(Tail(lines), next)

\* the fallback loop of analyze_changes over the '+++ b/' lines of the patch
RECURSIVE files_of_patch(_)
files_of_patch(content) ==
    IF content = <<>> THEN <<>>
    ELSE (IF Head(content).kind = "+++ b/"
            THEN << [path |-> Head(content).path, additions |-> 0, deletions |-> 0] >>
            ELSE <<>>) \o files_of_patch(Tail(content))

\* _parse_diff_content.  A line of the diff is [kind, path]: kind is what the
\* line starts with ("diff --git", "--- a/", "+++ b/", or anything else) and
\* path the file it names.  The loop is run with its two locals.
Flushed(diffs, current_file, current_diff) ==
    IF current_file # None /\ current_diff # <<>>
      THEN Append(diffs, [file |-> current_file, diff |-> current_diff])
      ELSE diffs
RECURSIVE parse_diff_lines(_, _, _, _)
parse_diff_lines(lines, current_file, current_diff, diffs) ==
    IF lines = <<>> THEN Flushed(diffs, current_file, current_diff)
    ELSE LET line == Head(lines)
         IN CASE line.kind = "diff --git" ->
                   parse_diff_lines(Tail(lines), None, <<line>>,
                                    Flushed(diffs, current_file, current_diff))
              [] line.kind \in {"--- a/", "+++ b/"} ->
                   parse_diff_lines(Tail(lines),
                                    IF line.kind = "+++ b/" THEN line.path ELSE current_file,
                                    Append(current_diff, line), diffs)
              [] OTHER ->
                   parse_diff_lines(Tail(lines), current_file,
                                    IF current_diff # <<>> THEN Append(current_diff, line)
                                    ELSE current_diff,
                                    diffs)
parse_diff_content(content) == parse_diff_lines(content, None, <<>>, <<>>)

\* ---- analyze_changes
ValueError(message) == [type |-> "ValueError", message |-> message]
MsgRequired == <<"Commit SHA is REQUIRED. We analyze specific commits to check if they're production-safe.">>
MsgNotGit(repo) ==
    <<"Not a git repository: ", repo, ". Commit analysis requires a git repository.">>
MsgNotFoundAfter(sha) ==
    <<"Commit ", sha, " not found in repository after resolution. Please verify the commit SHA is correct.">>
MsgDidYouMean(sha, potential_sha) ==
    <<"Commit ", sha, " not found. Did you mean ", potential_sha,
      "? Please verify the commit SHA is correct.">>
MsgNotFound(sha) ==
    <<"Commit ", sha, " not found in repository. Please verify the commit SHA is correct.">>
\* the outer except: raise ValueError(f"Error analyzing commit {commit_sha}: {str(e)}")
Reraised(sha, message) == ValueError(<<"Error analyzing commit ", sha, ": ">> \o message)

\* the dict analyze_changes starts from; keys set later start as None
InitialChanges(repo, sha) ==
    [ repo_path |-> repo, commit_sha |-> sha,
      modified_files |-> <<>>, added_files |-> <<>>, deleted_files |-> <<>>,
      total_additions |-> 0, total_deletions |-> 0, diffs |-> <<>>,
      commit_message |-> NoOutput, parent_sha |-> None ]

\* not commit_exists or "commit" not in commit_exists.lower()
NotACommit(exists) == exists = None \/ exists # "commit"

\* the empty-reference check, the initial dict and the .git check
AnBegin ==
    /\ an_pc = "start"
    /\ IF an_ref = ""
         THEN /\ an_raised' = ValueError(MsgRequired)
              /\ an_pc' = "done"
              /\ UNCHANGED changes
         ELSE /\ changes' = InitialChanges(an_repo, an_ref)
              /\ IF ~HasDotGit(an_repo)
                   THEN /\ an_raised' = Reraised(an_commit_sha, MsgNotGit(an_repo))
                        /\ an_pc' = "done"
                   ELSE /\ an_pc' = "cat_file"
                        /\ UNCHANGED an_raised
    /\ UNCHANGED <<an_repo, an_ref, an_commit_sha, commit_exists, an_parent_sha,
                   diff_stats, diff_content, runnerVars, cmpVars, runVars, auxVars>>

\* commit_exists = self._run_git_command(repo_path, f"cat-file -t {commit_sha}")
AnCatFile ==
    /\ an_pc = "cat_file"
    /\ commit_exists' = cat_file_t(an_repo, an_commit_sha)
    /\ an_pc' = IF NotACommit(commit_exists') THEN "rev_parse" ELSE "record"
    /\ UNCHANGED <<an_repo, an_ref, an_commit_sha, an_parent_sha, diff_stats,
                   diff_content, changes, an_raised, runnerVars, cmpVars, runVars, auxVars>>

\* git rev-parse --verify {commit_sha}^{commit}
AnRevParse ==
    /\ an_pc = "rev_parse"
    /\ IF rev_parse_verify(an_repo, an_commit_sha) # None
         THEN /\ an_commit_sha' = rev_parse_verify(an_repo, an_commit_sha)
              /\ an_pc' = "cat_file_again"
         ELSE /\ an_pc' = "git_log"
              /\ UNCHANGED an_commit_sha
    /\ UNCHANGED <<an_repo, an_ref, commit_exists, an_parent_sha, diff_stats,
                   diff_content, changes, an_raised, runnerVars, cmpVars, runVars, auxVars>>

\* the second cat-file -t, on the full name
AnCatFileAgain ==
    /\ an_pc = "cat_file_again"
    /\ commit_exists' = cat_file_t(an_repo, an_commit_sha)
    /\ IF NotACommit(commit_exists')
         THEN /\ an_raised' = Reraised(an_commit_sha, MsgNotFoundAfter(an_commit_sha))
              /\ an_pc' = "done"
         ELSE /\ an_pc' = "record"
              /\ UNCHANGED an_raised
    /\ UNCHANGED <<an_repo, an_ref, an_commit_sha, an_parent_sha, diff_stats,
                   diff_content, changes, runnerVars, cmpVars, runVars, auxVars>>

AnGitLog_Substitute ==
    /\ an_pc = "git_log"
    /\ LET potential_sha == git_log_grep(an_repo, First7(an_commit_sha))
       IN IF potential_sha # None
            THEN /\ an_commit_sha' = potential_sha
                 /\ an_pc' = "record"
                 /\ UNCHANGED an_raised
            ELSE /\ an_raised' = Reraised(an_commit_sha, MsgNotFound(an_commit_sha))
                 /\ an_pc' = "done"
                 /\ UNCHANGED an_commit_sha
    /\ UNCHANGED <<an_repo, an_ref, commit_exists, an_parent_sha, diff_stats,
                   diff_content, changes, runnerVars, cmpVars, runVars, auxVars>>

\* git log --oneline --all --grep={commit_sha[:7]} -n 1, then the raise
AnGitLog ==
    /\ an_pc = "git_log"
    /\ LET potential_sha == git_log_grep(an_repo, First7(an_commit_sha))
       IN an_raised' =
            IF potential_sha # None
              THEN Reraised(an_commit_sha, MsgDidYouMean(an_commit_sha, potential_sha))
              ELSE Reraised(an_commit_sha, MsgNotFound(an_commit_sha))
    /\ an_pc' = "done"
    /\ UNCHANGED <<an_repo, an_ref, an_commit_sha, commit_exists, an_parent_sha,
                   diff_stats, diff_content, changes, runnerVars, cmpVars, runVars, auxVars>>

\* changes["commit_sha"] = commit_sha, then the commit info
AnRecord ==
    /\ an_pc = "record"
    /\ changes' = [changes EXCEPT
                     !.commit_sha = an_commit_sha,
                     !.commit_message = git_show_subject(an_repo, an_commit_sha)]
    /\ an_pc' = "parent"
    /\ UNCHANGED <<an_repo, an_ref, an_commit_sha, commit_exists, an_parent_sha,
                   diff_stats, diff_content, an_raised, runnerVars, cmpVars, runVars, auxVars>>

\* parent_sha = self._run_git_command(repo_path, f"rev-parse {commit_sha}^")
AnParent ==
    /\ an_pc = "parent"
    /\ an_parent_sha' = rev_parse_parent(an_repo, an_commit_sha)
    /\ changes' = IF an_parent_sha' # None
                    THEN [changes EXCEPT !.parent_sha = an_parent_sha']
                    ELSE changes
    /\ an_pc' = "diff"
    /\ UNCHANGED <<an_repo, an_ref, an_commit_sha, commit_exists, diff_stats,
                   diff_content, an_raised, runnerVars, cmpVars, runVars, auxVars>>

\* _run_git_command when the subprocess exits non-zero or times out: the
\* error is printed and None is returned (lines 213-220)
run_git_command(fault, output) == IF fault = "none" THEN output ELSE NoOutput

\* diff --stat and diff against the parent (with the -U5 retry when the diff
\* came back empty), or show --stat and show
AnDiff ==
    /\ an_pc = "diff"
    /\ IF an_parent_sha # None
         THEN /\ diff_stats' = run_git_command(diff_fault, git_diff_stat(an_repo, an_commit_sha))
              /\ diff_content' =
                    LET first == run_git_command(diff_fault, git_diff(an_repo, an_commit_sha))
                    IN IF first # NoOutput THEN first
                       ELSE run_git_command(diff_fault, git_diff_U5(an_repo, an_commit_sha))
         ELSE /\ diff_stats' = run_git_command(diff_fault, git_show_stat(an_repo, an_commit_sha))
              /\ diff_content' = run_git_command(diff_fault, git_show(an_repo, an_commit_sha))
    /\ an_pc' = "parse"
    /\ UNCHANGED <<an_repo, an_ref, an_commit_sha, commit_exists, an_parent_sha,
                   changes, an_raised, runnerVars, cmpVars, runVars, auxVars>>

\* the parsing of the two outputs, and the return
AnParse ==
    /\ an_pc = "parse"
    /\ LET counted ==
               IF diff_stats # NoOutput THEN parse_git_diff(diff_stats, changes)
               ELSE IF changes.modified_files = <<>> /\ diff_content # NoOutput
                 THEN [changes EXCEPT !.modified_files = files_of_patch(diff_content)]
               ELSE changes
       IN changes' = [counted EXCEPT
                        !.diffs = IF diff_content # NoOutput
                                    THEN parse_diff_content(diff_content) ELSE <<>>]
    /\ an_pc' = "done"
    /\ UNCHANGED <<an_repo, an_ref, an_commit_sha, commit_exists, an_parent_sha,
                   diff_stats, diff_content, an_raised, runnerVars, cmpVars, runVars, auxVars>>

InitAnalyze ==
    /\ runners = {}
    /\ repo_path = [r \in Runners |-> "repoX"]
    /\ commit_sha = [r \in Runners |-> "c1"]
    /\ head = [r \in Repos |-> "c1"]
    /\ RunnerIdle
    /\ CmpOff
    /\ RunOff
    /\ an_pc = "start"
    /\ an_repo \in AnRepos
    /\ an_ref \in AnRefs
    /\ an_commit_sha = an_ref
    /\ commit_exists = None /\ an_parent_sha = None
    /\ diff_stats = <<>> /\ diff_content = <<>>
    /\ changes = None /\ an_raised = NoError
    /\ AuxOff

\* the same call when the diff commands may fail or time out
InitAnalyzeFaults ==
    /\ runners = {}
    /\ repo_path = [r \in Runners |-> "repoX"]
    /\ commit_sha = [r \in Runners |-> "c1"]
    /\ head = [r \in Repos |-> "c1"]
    /\ RunnerIdle
    /\ CmpOff
    /\ RunOff
    /\ an_pc = "start"
    /\ an_repo \in AnRepos
    /\ an_ref \in AnRefs
    /\ an_commit_sha = an_ref
    /\ commit_exists = None /\ an_parent_sha = None
    /\ diff_stats = <<>> /\ diff_content = <<>>
    /\ changes = None /\ an_raised = NoError
    /\ PdOff
    /\ diff_fault \in {"none", "nonzero", "timeout"}
    /\ RdOff
    /\ DsOff
    /\ ScOff
    /\ AsOff

NextAnalyze ==
    \/ AnBegin \/ AnCatFile \/ AnRevParse \/ AnCatFileAgain \/ AnGitLog
    \/ AnRecord \/ AnParent \/ AnDiff \/ AnParse

SpecAnalyze == InitAnalyze /\ [][NextAnalyze]_vars
SpecAnalyzeFaults == InitAnalyzeFaults /\ [][NextAnalyze]_vars

(***************************************************************************)
(* Specification SpecDiff: _parse_diff_content applied to the diffs git    *)
(* can print: any sequence of file sections, after the header of git show  *)
(* or without it.                                                          *)
(***************************************************************************)
MaxSections == 3        \* file sections in one diff

DiffLine(kind, path) == [kind |-> kind, path |-> path]

\* The sections git prints for a changed, a new, a removed and a binary file
ModifiedSection(path) ==
    << DiffLine("diff --git", path), DiffLine("index", path),
       DiffLine("--- a/", path), DiffLine("+++ b/", path), DiffLine("hunk", path) >>
AddedSection(path) ==
    << DiffLine("diff --git", path), DiffLine("new file mode", path),
       DiffLine("index", path), DiffLine("--- /dev/null", path),
       DiffLine("+++ b/", path), DiffLine("hunk", path) >>
DeletedSection(path) ==
    << DiffLine("diff --git", path), DiffLine("deleted file mode", path),
       DiffLine("index", path), DiffLine("--- a/", path),
       DiffLine("+++ /dev/null", path), DiffLine("hunk", path) >>
BinarySection(path) ==
    << DiffLine("diff --git", path), DiffLine("index", path),
       DiffLine("Binary files", path) >>

SectionPool ==
    { ModifiedSection("a.py"), AddedSection("b.py"), DeletedSection("c.py"),
      BinarySection("logo.png") }

DiffTexts ==
    { header \o Flatten(sections) :
        header \in { <<>>, [i \in 1..6 |-> DiffLine("header", None)] },
        sections \in SeqsUpTo(SectionPool, MaxSections) }

\* changes["diffs"] = self._parse_diff_content(diff_content)
ParseDiffContent ==
    /\ pd_pc = "call"
    /\ pd_diffs' = parse_diff_content(pd_content)
    /\ pd_pc' = "done"
    /\ UNCHANGED <<pd_content, diff_fault, rdVars, dsVars, scVars, asVars, runnerVars, cmpVars,
                   runVars, anVars>>

InitDiff ==
    /\ runners = {}
    /\ repo_path = [r \in Runners |-> "repoX"]
    /\ commit_sha = [r \in Runners |-> "c1"]
    /\ head = [r \in Repos |-> "c1"]
    /\ RunnerIdle
    /\ CmpOff
    /\ RunOff
    /\ AnOff
    /\ pd_pc = "call"
    /\ pd_content \in DiffTexts
    /\ pd_diffs = <<>>
    /\ FaultOff
    /\ RdOff
    /\ DsOff
    /\ ScOff
    /\ AsOff

NextDiff == ParseDiffContent

SpecDiff == InitDiff /\ [][NextDiff]_vars

(***************************************************************************)
(* Specification SpecReady: one call of _check_server_ready.  Each pass of *)
(* the loop is a probe step and, when the probe did not succeed, a sleep   *)
(* step.  SpecReadyFair adds that the event loop keeps running the call.   *)
(***************************************************************************)
max_retries == 10

ReadyUrls == {"http://localhost:8001", "http://localhost:8002"}
ProbeOutcomes_Ready ==
    {ProbeResponse(st) : st \in {200, 404, 499, 500, 503}} \cup {ProbeRaised}

IsReady_AnyResponse(outcome) == ~outcome.raised

\* if response.status < 500: return True
IsReady(outcome) == ~outcome.raised /\ outcome.status < 500

\* async with session.get(url, ...) as response, inside try / except: pass
ReadyProbe ==
    /\ rd_pc = "probe"
    /\ \E outcome \in ProbeOutcomes_Ready :
          /\ rd_last' = outcome
          /\ rd_answered' = (~outcome.raised /\ outcome.status < 500)
          /\ IF IsReady(outcome)
               THEN rd_pc' = "done" /\ rd_result' = TRUE
               ELSE rd_pc' = "sleep" /\ UNCHANGED rd_result
    /\ rd_probes' = rd_probes + 1
    /\ UNCHANGED <<rd_url, pdVars, diff_fault, dsVars, scVars, asVars, runnerVars, cmpVars,
                   runVars, anVars>>

\* await asyncio.sleep(1), then the next pass or return False
ReadySleep ==
    /\ rd_pc = "sleep"
    /\ IF rd_probes < max_retries
         THEN rd_pc' = "probe" /\ UNCHANGED rd_result
         ELSE rd_pc' = "done" /\ rd_result' = FALSE
    /\ UNCHANGED <<rd_url, rd_probes, rd_last, rd_answered, pdVars, diff_fault, dsVars,
                   scVars, asVars, runnerVars, cmpVars, runVars, anVars>>

InitReady ==
    /\ runners = {}
    /\ repo_path = [r \in Runners |-> "repoX"]
    /\ commit_sha = [r \in Runners |-> "c1"]
    /\ head = [r \in Repos |-> "c1"]
    /\ RunnerIdle
    /\ CmpOff
    /\ RunOff
    /\ AnOff
    /\ PdOff
    /\ FaultOff
    /\ rd_pc = "probe"
    /\ rd_url \in ReadyUrls
    /\ rd_probes = 0
    /\ rd_last = ProbeRaised /\ rd_result = FALSE /\ rd_answered = FALSE
    /\ DsOff
    /\ ScOff
    /\ AsOff

NextReady == ReadyProbe \/ ReadySleep

SpecReady == InitReady /\ [][NextReady]_vars
SpecReadyFair == SpecReady /\ WF_vars(NextReady)

(***************************************************************************)
(* Specification SpecDetect: the second half of _start_version on any      *)
(* workspace content: _detect_start_command, then the launch.              *)
(***************************************************************************)
\* What _detect_start_command looks at.  The script entries and the invalid
\* mark describe the content of package.json.
PyMarkers == {"main.py", "app.py", "backend/main.py"}
PackageJsonContents ==
    { {"package.json"} \cup scripts : scripts \in SUBSET {"scripts.start", "scripts.dev"} }
        \cup { {"package.json", "package.json:invalid"} }
WorkspaceContents ==
    { manifest \cup py : manifest \in PackageJsonContents \cup {{}}, py \in SUBSET PyMarkers }

\* start_command = self._detect_start_command(temp_dir)
DetectStartCommand ==
    /\ ds_pc = "detect"
    /\ start_command' = detect_start_command(ds_files)
    /\ ds_pc' = "launch"
    /\ UNCHANGED <<ds_files, ds_returned, ds_spawned, pdVars, diff_fault, rdVars,
                   scVars, asVars, runnerVars, cmpVars, runVars, anVars>>

\* if not start_command: return False; else Popen and return True; an
\* exception of the detection is caught by except Exception: return False
LaunchOrReturn ==
    /\ ds_pc = "launch"
    /\ IF start_command \in {None, DetectRaised}
         THEN ds_returned' = FALSE /\ ds_spawned' = FALSE
         ELSE ds_returned' = TRUE /\ ds_spawned' = TRUE
    /\ ds_pc' = "done"
    /\ UNCHANGED <<ds_files, start_command, pdVars, diff_fault, rdVars, scVars, asVars,
                   runnerVars, cmpVars, runVars, anVars>>

InitDetect ==
    /\ runners = {}
    /\ repo_path = [r \in Runners |-> "repoX"]
    /\ commit_sha = [r \in Runners |-> "c1"]
    /\ head = [r \in Repos |-> "c1"]
    /\ RunnerIdle
    /\ CmpOff
    /\ RunOff
    /\ AnOff
    /\ PdOff
    /\ FaultOff
    /\ RdOff
    /\ ds_pc = "detect"
    /\ ds_files \in WorkspaceContents
    /\ start_command = None
    /\ ds_returned = FALSE /\ ds_spawned = FALSE
    /\ ScOff
    /\ AsOff

NextDetect == DetectStartCommand \/ LaunchOrReturn

SpecDetect == InitDetect /\ [][NextDetect]_vars

(***************************************************************************)
(* Specification SpecSchema: the schema rule of _compare_responses on any  *)
(* pair of JSON bodies: the two _extract_schema calls.                     *)
(***************************************************************************)
\* JSON bodies that are truthy once parsed (the rule is only run on those)
SchemaTexts ==
    { "{\"ok\":true}", "{\"ok\":false}", "{\"error\":\"x\"}",
      "{\"ok\":true,\"items\":[1,2]}", "[1,2]",
      "{\"a\":1,\"b\":\"x\"}", "{\"b\":\"x\",\"a\":1}", "{\"a\":2,\"b\":\"y\"}",
      "{\"a\":\"x\",\"b\":1}", "{\"a\":[1]}", "{\"a\":[]}",
      "[1,\"x\"]", "[\"x\",1]", "[7]", "[[1],2]", "\"x\"", "true" }

\* schema_a = self._extract_schema(...); schema_b = self._extract_schema(...)
ExtractSchemas ==
    /\ sc_pc = "extract"
    /\ schema_a' = extract_schema(json_loads(sc_body_a))
    /\ schema_b' = extract_schema(json_loads(sc_body_b))
    /\ sc_pc' = "done"
    /\ UNCHANGED <<sc_body_a, sc_body_b, pdVars, diff_fault, rdVars, dsVars, asVars,
                   runnerVars, cmpVars, runVars, anVars>>

InitSchema ==
    /\ runners = {}
    /\ repo_path = [r \in Runners |-> "repoX"]
    /\ commit_sha = [r \in Runners |-> "c1"]
    /\ head = [r \in Repos |-> "c1"]
    /\ RunnerIdle
    /\ CmpOff
    /\ RunOff
    /\ AnOff
    /\ PdOff
    /\ FaultOff
    /\ RdOff
    /\ DsOff
    /\ sc_pc = "extract"
    /\ sc_body_a \in SchemaTexts
    /\ sc_body_b \in SchemaTexts
    /\ schema_a = None /\ schema_b = None
    /\ AsOff

NextSchema == ExtractSchemas

SpecSchema == InitSchema /\ [][NextSchema]_vars

(***************************************************************************)
(* Specification SpecStorage: the /analyze endpoint (backend/main.py) and   *)
(* the background runs of run_agent_analysis it starts.  The runs are      *)
(* coroutines on one event loop: a run is interleaved with other runs and  *)
(* other requests at each of its awaits, and only there.                   *)
(***************************************************************************)
\* f"analysis_{datetime.now().strftime('%Y%m%d_%H%M%S')}": the second it is
analysis_id(t) == <<"analysis", t>>

\* the commit_sha of a request; "" fails the validation of the endpoint
RequestCommits == {"", "c1", "c2"}

AgentNames ==
    << "Regression Agent", "Test Generation Agent", "E2E Simulation Agent",
       "Shadow Comparison Agent" >>

\* the dict a run appends to "agents": built from that run's agent result
AgentEntry(q, n) == [agent_name |-> AgentNames[n], run |-> q]

NoResults == [run |-> None, commit_sha |-> None]

\* analysis_storage[analysis_id] = {"status": "running", "agents": [], ...}
NewEntry(q) ==
    [status |-> "running", agents |-> <<>>, commit_sha |-> rq_commit[q],
     results |-> NoResults, error |-> FALSE]

Entry(q) == analysis_storage[rq_id[q]]

\* analysis_storage[analysis_id][...] = ... made by the run of request q
Store(q, entry) ==
    analysis_storage' =
        [i \in DOMAIN analysis_storage \cup {rq_id[q]} |->
            IF i = rq_id[q] THEN entry ELSE analysis_storage[i]]

\* except Exception: status "failed" and the error text, if the entry exists
Failed(q) ==
    IF rq_id[q] \in DOMAIN analysis_storage
    THEN Store(q, [Entry(q) EXCEPT !.status = "failed", !.error = TRUE])
    ELSE UNCHANGED analysis_storage

\* the clock reaches the next second
Tick ==
    /\ clock < MaxSeconds
    /\ clock' = clock + 1
    /\ UNCHANGED <<rq_pc, rq_commit, rq_id, analysis_storage, pdVars, diff_fault,
                   rdVars, dsVars, scVars, runnerVars, cmpVars, runVars, anVars>>

\* POST /analyze: an HTTPException, or an id and a background task
AnalyzeRelease(q) ==
    /\ rq_pc[q] = "new"
    /\ \E c \in RequestCommits :
        /\ rq_commit' = [rq_commit EXCEPT ![q] = c]
        /\ IF c = ""
           THEN /\ rq_pc' = [rq_pc EXCEPT ![q] = "rejected"]
                /\ UNCHANGED rq_id
           ELSE /\ rq_pc' = [rq_pc EXCEPT ![q] = "queued"]
                /\ rq_id' = [rq_id EXCEPT ![q] = analysis_id(clock)]
    /\ UNCHANGED <<clock, analysis_storage, pdVars, diff_fault,
                   rdVars, dsVars, scVars, runnerVars, cmpVars, runVars, anVars>>

\* run_agent_analysis up to its first await: the entry is initialised, then
\* the codebase and the commit are analysed (either may raise)
RunAgentAnalysis(q) ==
    /\ rq_pc[q] = "queued"
    /\ \E raised \in BOOLEAN :
        IF raised
        THEN /\ Store(q, [NewEntry(q) EXCEPT !.status = "failed", !.error = TRUE])
             /\ rq_pc' = [rq_pc EXCEPT ![q] = "done"]
        ELSE /\ Store(q, NewEntry(q))
             /\ rq_pc' = [rq_pc EXCEPT ![q] = "agent1"]
    /\ UNCHANGED <<clock, rq_commit, rq_id, pdVars, diff_fault,
                   rdVars, dsVars, scVars, runnerVars, cmpVars, runVars, anVars>>

AgentPc(n) == CASE n = 1 -> "agent1" [] n = 2 -> "agent2" [] n = 3 -> "agent3"
                [] OTHER -> "agent4"

\* the awaited regression agent comes back:
\* analysis_storage[analysis_id]["agents"] = [ {...} ]
RegressionDone(q) ==
    /\ rq_pc[q] = AgentPc(1)
    /\ \E raised \in BOOLEAN :
        IF raised
        THEN Failed(q) /\ rq_pc' = [rq_pc EXCEPT ![q] = "done"]
        ELSE /\ Store(q, [Entry(q) EXCEPT !.agents = <<AgentEntry(q, 1)>>])
             /\ rq_pc' = [rq_pc EXCEPT ![q] = AgentPc(2)]
    /\ UNCHANGED <<clock, rq_commit, rq_id, pdVars, diff_fault,
                   rdVars, dsVars, scVars, runnerVars, cmpVars, runVars, anVars>>

\* the awaited test-generation or e2e agent comes back:
\* analysis_storage[analysis_id]["agents"].append({...})
AgentDone(q, n) ==
    /\ rq_pc[q] = AgentPc(n)
    /\ \E raised \in BOOLEAN :
        IF raised
        THEN Failed(q) /\ rq_pc' = [rq_pc EXCEPT ![q] = "done"]
        ELSE /\ Store(q, [Entry(q) EXCEPT !.agents = Append(@, AgentEntry(q, n))])
             /\ rq_pc' = [rq_pc EXCEPT ![q] = AgentPc(n + 1)]
    /\ UNCHANGED <<clock, rq_commit, rq_id, pdVars, diff_fault,
                   rdVars, dsVars, scVars, runnerVars, cmpVars, runVars, anVars>>

\* the awaited shadow agent comes back: its entry is appended, the findings
\* are aggregated, then status "completed" and the results are stored
ShadowDone(q) ==
    /\ rq_pc[q] = AgentPc(4)
    /\ \E raised \in BOOLEAN :
        IF raised
        THEN Failed(q)
        ELSE Store(q, [Entry(q) EXCEPT
                         !.agents = Append(@, AgentEntry(q, 4)),
                         !.status = "completed",
                         !.results = [run |-> q, commit_sha |-> rq_commit[q]]])
    /\ rq_pc' = [rq_pc EXCEPT ![q] = "done"]
    /\ UNCHANGED <<clock, rq_commit, rq_id, pdVars, diff_fault,
                   rdVars, dsVars, scVars, runnerVars, cmpVars, runVars, anVars>>

InitStorage ==
    /\ runners = {}
    /\ repo_path = [r \in Runners |-> "repoX"]
    /\ commit_sha = [r \in Runners |-> "c1"]
    /\ head = [r \in Repos |-> "c1"]
    /\ RunnerIdle
    /\ CmpOff
    /\ RunOff
    /\ AnOff
    /\ PdOff
    /\ FaultOff
    /\ RdOff
    /\ DsOff
    /\ ScOff
    /\ clock = 0
    /\ rq_pc = [q \in Requests |-> "new"]
    /\ rq_commit = [q \in Requests |-> ""]
    /\ rq_id = [q \in Requests |-> NoId]
    /\ analysis_storage = EmptyStorage

NextStorage ==
    \/ Tick
    \/ \E q \in Requests :
        \/ AnalyzeRelease(q)
        \/ RunAgentAnalysis(q)
        \/ RegressionDone(q)
        \/ AgentDone(q, 2)
        \/ AgentDone(q, 3)
        \/ ShadowDone(q)

SpecStorage == InitStorage /\ [][NextStorage]_vars

(***************************************************************************)
(* Properties of the runner lifecycle.                                     *)
(***************************************************************************)
Returned(r, what) == pc[r] = "idle" /\ ret[r] = what
SetupFailures ==
    {"setup_error", "setup_no_parent", "setup_failed_A", "setup_failed_B",
     "setup_not_ready"}
StopPcs == {"su_stopA", "cl_stopA", "cl_stopB"}
KillPcs == {"su_killA", "cl_killA", "cl_killB"}

\* C1: when setup_dual_deployment returns "Failed to start version B", the
\* process it started for version A has been stopped and is not running.
C1_VersionAStoppedWhenBFails ==
    \A r \in runners :
        Returned(r, "setup_failed_B") =>
            /\ version_a_process[r] = ThisCall(r, "A")
            /\ proc[version_a_process[r]] = "exited"

\* C1 witness: the failure of version B has been returned with version A stopped
C1_Witness ==
    \E r \in runners :
        /\ Returned(r, "setup_failed_B")
        /\ proc[ThisCall(r, "A")] = "exited"
        /\ proc[ThisCall(r, "B")] = "none"

\* C2: on every failure return of setup_dual_deployment no process spawned by
\* that call is still running.
C2_NoProcessLeftOnSetupFailure ==
    \A r \in runners :
        (pc[r] = "idle" /\ ret[r] \in SetupFailures) =>
            \A l \in Labels : proc[ThisCall(r, l)] # "running"

\* C3: after setup_dual_deployment failed on the launch of version B, the
\* workspace of version A no longer exists.
C3_WorkspaceARemovedWhenBFails ==
    \A r \in runners :
        Returned(r, "setup_failed_B") => ws[temp_dir(r, "A")] = Absent

\* C4: when run_shadow_comparison has returned (success or error result), both
\* version processes are stopped and both workspaces are removed.
C4_RunEndsWithTeardown ==
    \A r \in runners :
        (pc[r] = "idle" /\ ret[r] \in {"run_ok", "run_error"}) =>
            /\ \A l \in Labels : proc[ThisCall(r, l)] # "running"
            /\ \A l \in Labels : ws[temp_dir(r, l)] = Absent

\* One step of _stop_version made by runner r, as the claim describes it.
StopVersionStep(r) ==
    LET h == Handle(r, StopLabel(r)) IN
    (pc[r] \in StopPcs \cup KillPcs /\ pc'[r] # pc[r]) =>
        \* a None handle: returns at once and changes nothing
        /\ (h = NoProcess => proc' = proc /\ pc'[r] = AfterStop(r))
        \* an already stopped process is left as it is
        /\ (h # NoProcess /\ proc[h] # "running" => proc' = proc)
        \* terminate is followed by exactly one grace period
        /\ (pc[r] \in StopPcs /\ h # NoProcess => pc'[r] \in KillPcs)
        \* after the grace period: force-kill if alive, then return
        /\ (pc[r] \in KillPcs =>
                h # NoProcess /\ proc'[h] # "running" /\ pc'[r] = AfterStop(r))
        \* no other process is touched
        /\ \A p \in ProcIds : p # h => proc'[p] = proc[p]

\* C5: _stop_version requests termination, waits one grace period, force-kills
\* a process that is still alive and returns; it can always take its next step
\* (it never blocks), and on a None handle or an already stopped process it
\* changes nothing.
C5_StopVersionBoundedIdempotent ==
    /\ [](\A r \in runners :
            pc[r] \in StopPcs \cup KillPcs =>
                ENABLED (StopTerminate(r) \/ StopKill(r)))
    /\ [][\A r \in runners : StopVersionStep(r)]_vars

\* C5 witness: a second cleanup is stopping version A, whose process the first
\* cleanup has already stopped
C5_Witness ==
    \E r \in runners :
        /\ pc[r] = "cl_killA"
        /\ ret[r] = "pending"
        /\ ws[temp_dir(r, "A")] = Absent
        /\ version_a_process[r] # NoProcess
        /\ proc[version_a_process[r]] = "exited"
        /\ version_b_process[r] # NoProcess

\* C6: two concurrent runs for distinct repositories or distinct commits never
\* use the same port and never the same workspace path.
C6_ConcurrentRunsShareNothing ==
    \A r1, r2 \in runners :
        (r1 # r2 /\ (repo_path[r1] # repo_path[r2] \/ commit_sha[r1] # commit_sha[r2])) =>
            \A p1, p2 \in ProcIds :
                (p1[1] = r1 /\ p2[1] = r2 /\ proc[p1] = "running" /\ proc[p2] = "running") =>
                    /\ ProcPort(p1) # ProcPort(p2)
                    /\ ProcWorkspace(p1) # ProcWorkspace(p2)

(***************************************************************************)
(* Properties of _compare_responses.                                       *)
(***************************************************************************)
Kinds(c) == [i \in 1..Len(c.discrepancies) |-> c.discrepancies[i].type]
HasKind(c, kind) == \E i \in 1..Len(c.discrepancies) : c.discrepancies[i].type = kind

\* C7: has_discrepancy holds exactly when the discrepancies list is non-empty,
\* and critical exactly when some listed discrepancy is critical.
C7_FlagsMatchDiscrepancies ==
    cmp_pc = "done" =>
        /\ comparison.has_discrepancy <=> comparison.discrepancies # <<>>
        /\ comparison.critical <=>
              \E i \in 1..Len(comparison.discrepancies) :
                  comparison.discrepancies[i].critical

\* C7 witness: a comparison whose only discrepancy is a non-critical size change
C7_Witness ==
    /\ cmp_pc = "done"
    /\ Kinds(comparison) = <<"response_size_change">>
    /\ comparison.has_discrepancy
    /\ ~comparison.critical

\* C8: differing status codes always give a critical status_code_mismatch and
\* a critical comparison; equal status codes never give a status_code_mismatch.
C8_StatusMismatchCritical ==
    cmp_pc = "done" =>
        IF resp_a.status # resp_b.status
        THEN /\ \E i \in 1..Len(comparison.discrepancies) :
                    comparison.discrepancies[i] =
                        [type |-> "status_code_mismatch", critical |-> TRUE]
             /\ comparison.critical
        ELSE ~HasKind(comparison, "status_code_mismatch")

\* C8 witness: a real status against a failed probe (status 0)
C8_Witness ==
    /\ cmp_pc = "done"
    /\ resp_a.status = 200
    /\ resp_b = FailedResponse
    /\ comparison.critical
    /\ HasKind(comparison, "status_code_mismatch")

\* C9: equal status, equal body shape, latency increase of at most 100 ms and
\* size change of at most 20 % give no discrepancy at all.
C9_Similar ==
    /\ resp_a.status = resp_b.status
    /\ extract_schema(resp_a.body_json) = extract_schema(resp_b.body_json)
    /\ lat_b - lat_a <= 100
    /\ 5 * Abs(resp_b.size - resp_a.size) <= resp_a.size

C9_SimilarProbesNoDiscrepancy ==
    (cmp_pc = "done" /\ C9_Similar) =>
        /\ ~comparison.has_discrepancy
        /\ comparison.discrepancies = <<>>
        /\ ~comparison.critical

\* C9 witness: both limits met exactly: 100 ms slower and 20 % larger
C9_Witness ==
    /\ cmp_pc = "done"
    /\ C9_Similar
    /\ lat_b - lat_a = 100
    /\ resp_a.size = 5 /\ resp_b.size = 6
    /\ Truthy(resp_a.body_json)
    /\ ~comparison.has_discrepancy

\* The scenario of C10: 200 {"ok":true} against 500 {"error":"x"}, equal latencies
C10_Scenario ==
    /\ cmp_pc = "done"
    /\ resp_a = Response(200, "{\"ok\":true}")
    /\ resp_b = Response(500, "{\"error\":\"x\"}")
    /\ lat_a = lat_b

\* C10 as stated: the scenario yields exactly [status_code_mismatch], critical.
C10_OnlyStatusMismatch ==
    C10_Scenario =>
        /\ Kinds(comparison) = <<"status_code_mismatch">>
        /\ comparison.critical

\* C10 as amended: the scenario yields [status_code_mismatch, schema_change]
\* (the two bodies differ in shape and every rule is applied), critical.
C10_StatusAndSchemaMismatch ==
    C10_Scenario =>
        /\ Kinds(comparison) = <<"status_code_mismatch", "schema_change">>
        /\ comparison.discrepancies[1].critical
        /\ ~comparison.discrepancies[2].critical
        /\ comparison.critical
        /\ comparison.has_discrepancy

\* C10 witness: the scenario has been compared
C10_Witness ==
    /\ C10_Scenario
    /\ Len(comparison.discrepancies) = 2

\* The body of a probe was parsed by json.loads (it is structured data).
Parsed(resp) == resp.body # None /\ json_loads(resp.body) # JsonError

DiscrepanciesOf(c, kind) ==
    {i \in 1..Len(c.discrepancies) : c.discrepancies[i].type = kind}

\* C11: a schema_change (never critical) is reported exactly when both bodies
\* parsed and their shape signatures differ, empty or falsy parsed values
\* ({}, [], 0, false, null) included.
C11_SchemaChangeIffShapesDiffer ==
    cmp_pc = "done" =>
        /\ HasKind(comparison, "schema_change") <=>
              /\ Parsed(resp_a) /\ Parsed(resp_b)
              /\ extract_schema(resp_a.body_json) # extract_schema(resp_b.body_json)
        /\ \A i \in DiscrepanciesOf(comparison, "schema_change") :
              ~comparison.discrepancies[i].critical

\* C12: a latency_increase (never critical) is reported exactly when
\* latency(B) - latency(A) > 100 ms; 40 ms against 260 ms with identical status
\* and bodies yields exactly [latency_increase], not critical.
C12_Scenario ==
    /\ cmp_pc = "done"
    /\ lat_a = 40 /\ lat_b = 260
    /\ resp_a = resp_b

C12_LatencyIncreaseAbove100 ==
    cmp_pc = "done" =>
        /\ HasKind(comparison, "latency_increase") <=> lat_b - lat_a > 100
        /\ \A i \in DiscrepanciesOf(comparison, "latency_increase") :
              ~comparison.discrepancies[i].critical
        /\ C12_Scenario =>
              Kinds(comparison) = <<"latency_increase">> /\ ~comparison.critical

\* C12 witness: the 40 ms / 260 ms scenario on two identical answers
C12_Witness ==
    /\ C12_Scenario
    /\ resp_a.status = 200
    /\ Kinds(comparison) = <<"latency_increase">>

\* C13: a response_size_change (never critical) is reported exactly when
\* size(A) is non-zero and |size(B) - size(A)| / size(A) > 20 %; never when
\* size(A) is zero.
C13_SizeChangeAbove20Percent ==
    cmp_pc = "done" =>
        /\ HasKind(comparison, "response_size_change") <=>
              /\ resp_a.size # 0
              /\ 5 * Abs(resp_b.size - resp_a.size) > resp_a.size
        /\ \A i \in DiscrepanciesOf(comparison, "response_size_change") :
              ~comparison.discrepancies[i].critical
        /\ resp_a.size = 0 => ~HasKind(comparison, "response_size_change")

\* C13 witness: version A answered nothing (size 0), version B a full body
C13_Witness ==
    /\ cmp_pc = "done"
    /\ resp_a.size = 0
    /\ resp_b.size > 0
    /\ ~HasKind(comparison, "response_size_change")

\* C13 second case reached as well: exactly 20 % (5 against 6 bytes) is no change
C13_AtLimitReached ==
    /\ cmp_pc = "done"
    /\ resp_a.size = 5 /\ resp_b.size = 6
    /\ ~HasKind(comparison, "response_size_change")

(***************************************************************************)
(* Properties of the materialization done by _start_version.               *)
(***************************************************************************)
\* C15: a workspace that _start_version materialized for the same commit and
\* label, with no change from outside since, is found at the requested commit
\* by the next _start_version and is not deleted and copied again.
C15_MaterializeIdempotent ==
    \A r \in runners :
        /\ (pc[r] = "su_startA" /\ ws[temp_dir(r, "A")] # Absent) =>
                ~Reclone(r, parent_sha[r], "A")
        /\ (pc[r] = "su_startB" /\ ws[temp_dir(r, "B")] # Absent) =>
                ~Reclone(r, commit_sha[r], "B")

\* C16: a materialized workspace holds the tree of the commit it was
\* materialized for: version A the parent commit's files, version B the target
\* commit's files.
C16_WorkspaceHoldsRequestedTree ==
    \A r \in runners :
        /\ ws[temp_dir(r, "A")] # Absent => ws[temp_dir(r, "A")] = Parent(commit_sha[r])
        /\ ws[temp_dir(r, "B")] # Absent => ws[temp_dir(r, "B")] = commit_sha[r]

(***************************************************************************)
(* Properties of run_shadow_comparison.                                    *)
(***************************************************************************)
WellFormed(request) == ~UrlRaises(Get(request, "path", "/"))
ForRequest(c, request) ==
    /\ c.endpoint = Get(request, "path", "/")
    /\ c.method = Get(request, "method", "GET")
\* the summary of one side of a comparison is the one of a failed probe
SentinelSide(side) == side.status = 0 /\ side.size = 0

\* C14: a failed probe comes back from _send_request as status 0, no body,
\* size 0 with a latency, and does not abort the run: at every moment the
\* i-th comparison is the one of the i-th request, a failed probe (and only
\* a failed probe) shows as status 0 / size 0 in it with its latency, and a run over well-formed requests ends
\* successfully with one comparison per request and total_compared equal to
\* the number of requests.
C14_FailedProbeDoesNotAbort ==
    /\ FailedResponse.status = 0 /\ FailedResponse.body = None
    /\ FailedResponse.size = 0
    /\ run_pc \in {"sendB", "compare"} /\ probe_a[1] = FailedResponse =>
            probe_a[2] \in Nat
    /\ Len(comparisons) <= Len(test_requests)
    /\ \A i \in 1..Len(comparisons) : ForRequest(comparisons[i], test_requests[i])
    /\ run_pc \in {"for", "sendA", "sendB", "compare"} => Len(comparisons) = req_i - 1
    /\ (run_pc = "for" /\ req_i > 1) =>
            /\ probe_a[1] = FailedResponse <=>
                    SentinelSide(comparisons[req_i - 1].version_a)
            /\ probe_b[1] = FailedResponse <=>
                    SentinelSide(comparisons[req_i - 1].version_b)
            /\ comparisons[req_i - 1].version_a.latency_ms = probe_a[2]
            /\ comparisons[req_i - 1].version_b.latency_ms = probe_b[2]
    /\ (run_pc = "done" /\ \A i \in 1..Len(test_requests) : WellFormed(test_requests[i])) =>
            /\ run_result.success
            /\ Len(run_result.comparisons) = Len(test_requests)
            /\ run_result.total_compared = Len(test_requests)
            /\ \A i \in 1..Len(test_requests) :
                   ForRequest(run_result.comparisons[i], test_requests[i])

\* a finished run of two requests whose first probe of version A failed
C14_Witness ==
    /\ run_pc = "done"
    /\ Len(test_requests) = 2
    /\ run_result.success
    /\ run_result.total_compared = 2
    /\ SentinelSide(run_result.comparisons[1].version_a)
    /\ run_result.comparisons[1].version_b.status = 200
    /\ run_result.comparisons[2].endpoint = "/items"

(***************************************************************************)
(* Properties of analyze_changes.                                          *)
(***************************************************************************)
AnReturned == an_pc = "done" /\ an_raised = NoError
AnRaised == an_pc = "done" /\ an_raised # NoError
\* the commit the caller's reference stands for in the repository, or None
Requested == rev_parse_verify(an_repo, an_ref)
\* the reference failed the object-type check and the rev-parse resolution
FailsBothChecks ==
    /\ an_ref # "" /\ HasDotGit(an_repo)
    /\ NotACommit(cat_file_t(an_repo, an_ref))
    /\ Requested = None

\* C17: the commit found by the history search is never analysed: a reference
\* that fails the object-type check and the rev-parse resolution makes the
\* call raise, and whatever is recorded and analysed (name, message, parent,
\* patch) belongs to the commit the given reference itself resolves to.
C17_NoSilentSubstitution ==
    /\ (an_pc = "done" /\ FailsBothChecks) => an_raised # NoError
    /\ an_pc \in {"record", "parent", "diff", "parse"} =>
            /\ Requested # None
            /\ rev_parse_verify(an_repo, an_commit_sha) = Requested
    /\ AnReturned =>
            /\ Requested # None
            /\ rev_parse_verify(an_repo, changes.commit_sha) = Requested
            /\ changes.commit_message = CommitObject(Requested).subject
            /\ changes.parent_sha = CommitObject(Requested).parent
            /\ changes.diffs = parse_diff_content(Patch(CommitObject(Requested).files))

\* the history search found a commit and the call raised, naming it
C17_Witness ==
    /\ AnRaised
    /\ FailsBothChecks
    /\ git_log_grep(an_repo, First7(an_ref)) = Abbrev7(K1)
    /\ an_raised = Reraised(an_ref, MsgDidYouMean(an_ref, Abbrev7(K1)))

\* the references C18 speaks of: a full name, or an abbreviation of seven or
\* more characters, that resolves to a commit of the repository
FullOrAbbreviated ==
    /\ Requested # None
    /\ \/ an_ref = Requested
       \/ Len(an_ref) >= 7 /\ an_ref = Abbrev7(Requested)

\* C18: for a full or abbreviated name that resolves, the recorded
\* changes["commit_sha"] is the 40-character name of the commit (and so
\* records itself when the call is made again with it).
C18_RecordedShaIsCanonical ==
    (AnReturned /\ FullOrAbbreviated) =>
        /\ Len(changes.commit_sha) = 40
        /\ changes.commit_sha = Requested

\* what tells two errors apart once the echoed reference is set aside: the
\* exception type and the wording
RECURSIVE Wording(_, _)
Wording(message, ref) ==
    IF message = <<>> THEN <<>>
    ELSE (IF Head(message) = ref THEN <<"{}">> ELSE <<Head(message)>>)
            \o Wording(Tail(message), ref)
KindOf(err, ref) == [type |-> err.type, wording |-> Wording(err.message, ref)]
\* the kind a reference that matches no commit is reported with
NotFoundKind == KindOf(Reraised("0123456", MsgNotFound("0123456")), "0123456")
NotAVersionedRepoKind == KindOf(Reraised("0123456", MsgNotGit("export")), "0123456")
AmbiguousRef == HasDotGit(an_repo) /\ Cardinality(CommitsNamed(an_repo, an_ref)) > 1

\* C19: a directory without .git, an ambiguous reference and a missing
\* reference fail with three different kinds; in particular an ambiguous
\* reference is not reported with the kind of a missing one.
C19_ThreeFailureKinds ==
    /\ NotAVersionedRepoKind # NotFoundKind
    /\ (AnRaised /\ an_ref # "" /\ ~HasDotGit(an_repo)) =>
            KindOf(an_raised, an_ref) = NotAVersionedRepoKind
    /\ (AnRaised /\ AmbiguousRef) => KindOf(an_raised, an_ref) # NotFoundKind

\* C20: a root commit is analysed without failure, records no parent, and its
\* change set lists every file of the commit with its line count as
\* additions and no deletions (a.py, 10 lines -> [a.py, 10, 0]).
C20_RootCommitAllAdditions ==
    (an_pc = "done" /\ Requested # None /\ CommitObject(Requested).parent = None) =>
        /\ an_raised = NoError
        /\ changes.parent_sha = None
        /\ changes.total_deletions = 0
        /\ \A i \in DOMAIN changes.modified_files : changes.modified_files[i].deletions = 0
        /\ changes.modified_files =
              [ i \in DOMAIN CommitObject(Requested).files |->
                  [ path |-> CommitObject(Requested).files[i].path,
                    additions |-> CommitObject(Requested).files[i].added,
                    deletions |-> 0 ] ]

(***************************************************************************)
(* Properties of _parse_diff_content.                                      *)
(***************************************************************************)
\* the file sections of a diff, in its order: each starts at a diff --git line
RECURSIVE SectionsOf(_, _)
SectionsOf(content, acc) ==
    IF content = <<>> THEN acc
    ELSE IF Head(content).kind = "diff --git"
           THEN SectionsOf(Tail(content), Append(acc, <<Head(content)>>))
    ELSE IF acc = <<>> THEN SectionsOf(Tail(content), acc)
    ELSE SectionsOf(Tail(content),
                    [acc EXCEPT ![Len(acc)] = Append(@, Head(content))])
HasMarker(section, kind) == \E i \in DOMAIN section : section[i].kind = kind
MarkerPath(section, kind) ==
    section[CHOOSE i \in DOMAIN section : section[i].kind = kind].path
\* the path a section is to be recorded under: the new-file marker's, or the
\* old-file marker's when there is no new-file path
RecordedPath(section) ==
    IF HasMarker(section, "+++ b/") THEN MarkerPath(section, "+++ b/")
    ELSE IF HasMarker(section, "--- a/") THEN MarkerPath(section, "--- a/")
    ELSE None

\* C21: _parse_diff_content returns one entry per file section of the diff,
\* in the diff's order, under the path of the section's new-file marker, or
\* of its old-file marker for a file that was removed.
C21_OneEntryPerSection ==
    pd_pc = "done" =>
        LET sections == SectionsOf(pd_content, <<>>)
        IN /\ Len(pd_diffs) = Len(sections)
           /\ \A i \in DOMAIN pd_diffs :
                  RecordedPath(sections[i]) # None =>
                      pd_diffs[i].file = RecordedPath(sections[i])

\* the file paths a diff stream speaks of
PathsIn(stream) == {stream[i].path : i \in {j \in DOMAIN stream : stream[j].kind = "diff --git"}}
Concatenated(diffs) == Flatten([i \in DOMAIN diffs |-> diffs[i].diff])

\* C22: the per-file diffs, concatenated in order, speak of the same set of
\* file paths as the full diff.
C22_RoundTripKeepsPaths ==
    pd_pc = "done" => PathsIn(Concatenated(pd_diffs)) = PathsIn(pd_content)

(***************************************************************************)
(* Properties of analyze_changes when git fails.                           *)
(***************************************************************************)
\* C23: when the diff command exits non-zero or times out, analyze_changes
\* raises and returns no change set; a returned change set without files
\* only comes from a commit whose diff is empty.
C23_FailedDiffRaises ==
    /\ (an_pc = "done" /\ Requested # None /\ diff_fault # "none") =>
            an_raised # NoError
    /\ (AnReturned /\ changes.diffs = <<>> /\ changes.modified_files = <<>>) =>
            CommitObject(Requested).files = <<>>

(***************************************************************************)
(* Properties of _check_server_ready.                                      *)
(***************************************************************************)
ReadyReturned(value) == rd_pc = "done" /\ rd_result = value

\* C24: _check_server_ready makes at most max_retries probes and returns:
\* True as soon as a probe gets a response with status below 500 (and only
\* then), False after the last attempt when every probe raised or got a
\* status of 500 or more.
C24_ReadinessWithinBudget ==
    /\ [](/\ rd_probes <= max_retries
          /\ rd_answered <=> ReadyReturned(TRUE)
          /\ ReadyReturned(TRUE) => ~rd_last.raised /\ rd_last.status < 500
          /\ ReadyReturned(FALSE) => rd_probes = max_retries /\ ~rd_answered
          /\ rd_pc = "sleep" => rd_last.raised \/ rd_last.status >= 500)
    /\ <>(rd_pc = "done")

\* the last of the ten probes is the first one answered below 500
C24_Witness ==
    /\ ReadyReturned(TRUE)
    /\ rd_probes = max_retries
    /\ rd_last = ProbeResponse(404)

\* all ten probes failed, the last with a server error
C24_WitnessBudgetSpent ==
    /\ ReadyReturned(FALSE)
    /\ rd_last = ProbeResponse(503)

(***************************************************************************)
(* Properties of _detect_start_command.                                    *)
(***************************************************************************)
\* the stated policy: the first of the five candidates that is present
FirstMatch(files) ==
    IF "package.json" \in files /\ "scripts.start" \in files THEN "npm start"
    ELSE IF "package.json" \in files /\ "scripts.dev" \in files THEN "npm run dev"
    ELSE IF "main.py" \in files THEN "python main.py"
    ELSE IF "app.py" \in files THEN "python app.py"
    ELSE IF "backend/main.py" \in files
         THEN "cd backend && uvicorn main:app --port $PORT"
    ELSE None

\* C25: _detect_start_command gives the first match of the five candidates
\* and None when there is none; on None _start_version returns False and
\* spawns nothing.
C25_FirstMatchPolicy ==
    /\ ds_pc \in {"launch", "done"} => start_command = FirstMatch(ds_files)
    /\ (ds_pc = "done" /\ start_command = None) => ~ds_returned /\ ~ds_spawned

(***************************************************************************)
(* Properties of _extract_schema.                                          *)
(***************************************************************************)
\* two parsed bodies have the same shape: the same keys with values of the
\* same shape, non-empty lists whose first elements have the same shape, or
\* two other values of the same type
RECURSIVE SameShape(_, _)
SameShape(x, y) ==
    IF x.t = "dict" /\ y.t = "dict"
      THEN /\ DOMAIN x.v = DOMAIN y.v
           /\ \A k \in DOMAIN x.v : SameShape(x.v[k], y.v[k])
    ELSE IF x.t = "list" /\ y.t = "list" /\ x.v # <<>> /\ y.v # <<>>
      THEN SameShape(x.v[1], y.v[1])
    ELSE /\ ~(x.t = "dict" /\ y.t = "dict")
         /\ x.t = y.t
         /\ (x.t = "list" => x.v = <<>> /\ y.v = <<>>)

\* the three reductions, on one parsed body and its signature
ReducedAsStated(obj, schema) ==
    CASE obj.t = "dict" ->
            /\ schema.t = "dict" /\ DOMAIN schema.v = DOMAIN obj.v
            /\ \A k \in DOMAIN obj.v : schema.v[k] = extract_schema(obj.v[k])
      [] obj.t = "list" /\ obj.v # <<>> ->
            /\ schema.t = "list" /\ Len(schema.v) = 1
            /\ schema.v[1] = extract_schema(obj.v[1])
      [] OTHER -> schema = PyStr(obj.t)

\* C26: _extract_schema maps an object to key -> shape, a non-empty list to
\* the one-element list of its first element's shape, anything else to its
\* type name; two bodies get equal signatures exactly when they have the
\* same shape, whatever the key order, the scalar values and the list
\* elements after the first.
C26_SchemaIsStructuralShape ==
    sc_pc = "done" =>
        /\ ReducedAsStated(json_loads(sc_body_a), schema_a)
        /\ ReducedAsStated(json_loads(sc_body_b), schema_b)
        /\ (schema_a = schema_b) <=> SameShape(json_loads(sc_body_a), json_loads(sc_body_b))
        /\ (sc_body_a = "{\"a\":1,\"b\":\"x\"}"
              /\ sc_body_b \in {"{\"b\":\"x\",\"a\":1}", "{\"a\":2,\"b\":\"y\"}"})
                => schema_a = schema_b
        /\ (sc_body_a = "[7]" /\ sc_body_b \in {"[1,2]", "[1,\"x\"]"}) => schema_a = schema_b
        /\ (sc_body_a = "[1,\"x\"]" /\ sc_body_b = "[\"x\",1]") => schema_a # schema_b

\* two lists that differ after their first element got the same signature
C26_Witness ==
    /\ sc_pc = "done"
    /\ sc_body_a = "[7]" /\ sc_body_b = "[1,\"x\"]"
    /\ schema_a = PyList(<<PyStr("int")>>)
    /\ schema_a = schema_b

(***************************************************************************)
(* Further properties of the runner lifecycle.                             *)
(***************************************************************************)
Spawned(p) == proc[p] # "none"

\* what a successful setup rests on, and the order of its steps
C27_SetupOrder ==
    \A r \in runners :
        /\ Returned(r, "setup_ok") =>
              /\ parent_sha[r] # None /\ parent_sha[r] = Parent(commit_sha[r])
              /\ version_a_process[r] = ThisCall(r, "A") /\ Spawned(ThisCall(r, "A"))
              /\ version_b_process[r] = ThisCall(r, "B") /\ Spawned(ThisCall(r, "B"))
              /\ ProcPort(ThisCall(r, "A")) = 8001 /\ ProcPort(ThisCall(r, "B")) = 8002
              /\ a_ready[r]
        /\ pc[r] = "su_startA" => ~Spawned(ThisCall(r, "B"))
        /\ pc[r] \in {"su_readyA", "su_readyB"} =>
              Spawned(ThisCall(r, "A")) /\ Spawned(ThisCall(r, "B"))

\* a readiness check comes back True only on an answer on that version's
\* URL, and a setup turns successful only at the end of the second check
C27_AnsweredReadiness ==
    \A r \in runners :
        /\ (a_ready'[r] /\ ~a_ready[r]) =>
              pc[r] = "su_readyA" /\ Listening(version_a_port)
        /\ (ret'[r] = "setup_ok" /\ ret[r] # "setup_ok") =>
              pc[r] = "su_readyB" /\ a_ready[r] /\ Listening(version_b_port)

\* C27: setup_dual_deployment returns (True, None) only if a parent commit
\* was found, version A and then version B were spawned on ports 8001 and
\* 8002, and both versions answered the readiness check, which is made only
\* after both were spawned.
C27_SuccessOnlyIfBothVersionsAnswered ==
    []C27_SetupOrder /\ [][C27_AnsweredReadiness]_vars

C27_Witness ==
    \E r \in runners :
        /\ Returned(r, "setup_ok")
        /\ proc[ThisCall(r, "A")] = "running" /\ proc[ThisCall(r, "B")] = "running"

SpawnedBy(r) == {p \in ProcIds : p[1] = r /\ Spawned(p)}

\* after a cleanup nothing of the runner is left, and until then every
\* running process of the runner is held by one of its two handles
C28_NothingLeft ==
    \A r \in runners :
        /\ Returned(r, "cleaned") =>
              /\ \A p \in SpawnedBy(r) : proc[p] # "running"
              /\ ws[temp_dir(r, "A")] = Absent /\ ws[temp_dir(r, "B")] = Absent
        /\ \A p \in SpawnedBy(r) :
              proc[p] = "running" => p \in {version_a_process[r], version_b_process[r]}

\* a handle is replaced only when the process it held is no longer running
C28_HandleNotOverwritten ==
    \A r \in runners :
        /\ (version_a_process'[r] # version_a_process[r] /\ version_a_process[r] # NoProcess) =>
              proc[version_a_process[r]] # "running"
        /\ (version_b_process'[r] # version_b_process[r] /\ version_b_process[r] # NoProcess) =>
              proc[version_b_process[r]] # "running"

\* C28: whatever sequence of setup_dual_deployment and cleanup calls was made
\* on a runner, after a cleanup no process it spawned is alive and neither
\* workspace exists; a spawned process stays reachable through
\* version_a_process or version_b_process until it is stopped, and a repeated
\* setup never overwrites the handle of a running process.
C28_CleanupLeavesNothingBehind ==
    []C28_NothingLeft /\ [][C28_HandleNotOverwritten]_vars

Starting(r) == pc[r] \in {"su_startA", "su_startB"}
StartingLabel(r) == IF pc[r] = "su_startA" THEN "A" ELSE "B"
OtherLabel(label) == IF label = "A" THEN "B" ELSE "A"

\* a _start_version step leaves the repository's checked-out commit and the
\* other version's workspace as they were
C29_StartFrame ==
    \A r \in runners :
        (Starting(r) /\ pc'[r] # pc[r]) =>
            /\ head'[repo_path[r]] = head[repo_path[r]]
            /\ ws'[temp_dir(r, OtherLabel(StartingLabel(r)))] =
                   ws[temp_dir(r, OtherLabel(StartingLabel(r)))]
            /\ nested'[temp_dir(r, OtherLabel(StartingLabel(r)))] =
                   nested[temp_dir(r, OtherLabel(StartingLabel(r)))]

\* version B's workspace holds no copy of version A's workspace
C29_NoNestedCopy ==
    \A r \in runners : "A" \notin nested[temp_dir(r, "B")]

\* C29: _start_version changes only the workspace of the version it
\* materializes: the source repository's checked-out commit and working tree
\* and the other version's workspace stay unchanged, and the workspace made
\* for version B does not contain a copy of version A's workspace.
C29_StartTouchesOwnWorkspaceOnly ==
    []C29_NoNestedCopy /\ [][C29_StartFrame]_vars

(***************************************************************************)
(* Properties of the analysis runs.                                        *)
(***************************************************************************)
Accepted(q) == rq_id[q] # NoId
IsPrefix(a, b) == Len(a) <= Len(b) /\ SubSeq(b, 1, Len(a)) = a
RunsIn(entry) ==
    {entry.agents[k].run : k \in 1..Len(entry.agents)} \cup
    (IF entry.results # NoResults THEN {entry.results.run} ELSE {})

\* no two accepted requests hold the same id, and an entry holds the agents
\* and results of one run only
C30_OwnEntry ==
    /\ \A q1, q2 \in Requests :
          (q1 # q2 /\ Accepted(q1) /\ Accepted(q2)) => rq_id[q1] # rq_id[q2]
    /\ \A i \in DOMAIN analysis_storage :
          Cardinality(RunsIn(analysis_storage[i])) <= 1

\* an entry's agents list only grows, its results stay once stored, and a
\* status that is completed or failed does not become running again
C30_NeverReset ==
    \A i \in DOMAIN analysis_storage :
        /\ IsPrefix(analysis_storage[i].agents, analysis_storage'[i].agents)
        /\ analysis_storage[i].results # NoResults =>
              analysis_storage'[i].results = analysis_storage[i].results
        /\ analysis_storage[i].status \in {"completed", "failed"} =>
              analysis_storage'[i].status # "running"

\* C30: every accepted /analyze request gets an analysis id no other run
\* uses, so under any interleaving analysis_storage[analysis_id] is written
\* by its own run only: status, agents and results of a run are never reset
\* or overwritten by another run, and a completed or failed status never
\* goes back to running.
C30_RunsAreIsolated ==
    []C30_OwnEntry /\ [][C30_NeverReset]_vars
====
